---- MODULE Spec2Model ----
(***************************************************************************)
(* A model of the DEFLATE codec of zip-rs: the bit stream                  *)
(* (src/src/bitstream.rs), the Huffman codec (src/src/huffman.rs) and      *)
(* inflate / deflate (src/src/deflate.rs).                                 *)
(*                                                                         *)
(* Rust vectors are sequences; the element the source calls v[i] is        *)
(* v[i + 1] here.  A function of the source that can fail returns a record *)
(* whose field kind is "ok", "err" (an Err value, named in field fault)    *)
(* or "panic" (a failed assertion, an index out of range, an unwrap of     *)
(* None/Err, an arithmetic overflow caught by the build).                  *)
(***************************************************************************)
EXTENDS Integers, Sequences, FiniteSets, TLC

\* overflow_checks  how the crate was built: TRUE when integer overflow
\*                  panics (debug profile), FALSE when it wraps (release)
\* uncompressed     the bytes handed to deflate
\* deflating        the locals of deflate
\* compressed       the bytes handed to inflate
\* full             the whole stream of which compressed is a prefix
\* inflating        the locals of inflate
\* unit             the locals of a unit test of the crate: a function of
\*                  bitstream.rs, huffman.rs or deflate.rs called on its own
VARIABLES overflow_checks, uncompressed, deflating, compressed, full, inflating,
          unit

vars == <<overflow_checks, uncompressed, deflating, compressed, full, inflating, unit>>

\* ------------------------------------------------------------- constants
\* src/src/constant.rs
END_OF_BLOCK == 256
HCLEN_ORDER == <<16, 17, 18, 0, 8, 7, 9, 6, 10, 5, 11, 4, 12, 3, 13, 2, 14, 1, 15>>
MAX_DIST == 32768
MAX_LEN == 258
MAX_NUM_BITS == 15
MIN_LEN == 3
NUM_DIST_CODE == 30
\* deflate.rs names these two; constant.rs of this revision holds NUM_LIT = 288
MAX_NUM_LIT == 288
MIN_NUM_LIT == 257
\* let mut bytes = [0 as u8; u16::MAX as usize]
BUF_SIZE == 65535

\* ------------------------------------------------------- machine integers
Pow2(n) == 2 ^ n

RECURSIVE BitAnd(_, _)
BitAnd(a, b) ==
    IF a = 0 \/ b = 0 THEN 0
    ELSE (a % 2) * (b % 2) + 2 * BitAnd(a \div 2, b \div 2)

RECURSIVE BitOr(_, _)
BitOr(a, b) ==
    IF a = 0 THEN b
    ELSE IF b = 0 THEN a
    ELSE (IF a % 2 = 1 \/ b % 2 = 1 THEN 1 ELSE 0) + 2 * BitOr(a \div 2, b \div 2)

Shl16(a, n) == (a * Pow2(n)) % 65536
\* a u32 shifted left; the accumulators hold fewer than 8 + 16 bits, so no bit
\* is shifted out of the 32
Shl32(a, n) == a * Pow2(n)
Shr(a, n) == a \div Pow2(n)

\* e, once the record st has been computed: the loops below split their range
\* in two and run the first half before the second
After(st, e) == IF DOMAIN st = {} THEN st ELSE e

Min(a, b) == IF a < b THEN a ELSE b
Max(a, b) == IF a > b THEN a ELSE b

\* ------------------------------------------------------------- bitstream
\* ((v >> k) & mask) | ((v & mask) << k) on a u16
SwapBits(v, k, mask) == BitOr(BitAnd(Shr(v, k), mask), Shl16(BitAnd(v, mask), k))

\* reverse, from "swap nibbles" on; v holds the pairs swapped
ReverseNibbles(v, n) ==
    IF n <= 8 THEN Shr(v, 8 - n) ELSE Shr(SwapBits(v, 8, 255), 16 - n)

\* reverse, from "swap consecutive pairs" on; v holds odd and even bits swapped
ReversePairs(v, n) ==
    IF n <= 4 THEN Shr(v, 4 - n) ELSE ReverseNibbles(SwapBits(v, 4, 3855), n)

\* reverse, after "swap odd and even bits"
ReverseOddEven(v, n) == IF n = 2 THEN v ELSE ReversePairs(SwapBits(v, 2, 13107), n)

\* fn reverse(a: Bits, n: u8) -> Bits
reverse(a, n) == IF n = 1 THEN a ELSE ReverseOddEven(SwapBits(a, 1, 21845), n)

\* BitReader::new: nothing buffered.  pos is the number of bytes pulled from
\* the byte source; nread (history) is the number of bits handed out.
NewReader == [pos |-> 0, bits |-> 0, acc |-> 0, nread |-> 0]

\* Refill with read in place of read_exact: at the end of the source no byte
\* arrives, the zero in the buffer is taken for one and nothing fails
RECURSIVE RefillPadded(_, _, _)
RefillPadded(inp, rd, n) ==
    IF rd.bits >= n THEN [kind |-> "ok", rd |-> rd]
    ELSE RefillPadded(inp,
                      [rd EXCEPT !.pos = IF @ < Len(inp) THEN @ + 1 ELSE @,
                                 !.acc = BitOr(@, Shl32(IF rd.pos < Len(inp)
                                                        THEN inp[rd.pos + 1] ELSE 0,
                                                        rd.bits)),
                                 !.bits = @ + 8],
                      n)

\* Refill with the loop condition self.bits <= n: a byte is pulled also when
\* the buffer holds exactly the bits requested
RECURSIVE RefillEager(_, _, _)
RefillEager(inp, rd, n) ==
    IF rd.bits > n THEN [kind |-> "ok", rd |-> rd]
    ELSE IF rd.pos >= Len(inp) THEN [kind |-> "err", rd |-> rd]
    ELSE RefillEager(inp,
                     [rd EXCEPT !.pos = @ + 1,
                                !.acc = BitOr(@, Shl32(inp[rd.pos + 1], rd.bits)),
                                !.bits = @ + 8],
                     n)

\* the loop of read_bits: while self.bits < n { read_exact one byte; ... }
RECURSIVE Refill(_, _, _)
Refill(inp, rd, n) ==
    IF rd.bits >= n THEN [kind |-> "ok", rd |-> rd]
    ELSE IF rd.pos >= Len(inp) THEN [kind |-> "err", rd |-> rd]
    ELSE Refill(inp,
                [rd EXCEPT !.pos = @ + 1,
                           !.acc = BitOr(@, Shl32(inp[rd.pos + 1], rd.bits)),
                           !.bits = @ + 8],
                n)

\* read_bits after its loop: f is what the loop left
ReadBitsTake(f, n, order) ==
    IF f.kind = "err"
    THEN [kind |-> "err", fault |-> "UnexpectedEof", val |-> 0, rd |-> f.rd]
    ELSE [kind |-> "ok", fault |-> "",
          val |-> IF order THEN BitAnd(f.rd.acc, Pow2(n) - 1) % 65536
                  ELSE reverse(BitAnd(f.rd.acc, Pow2(n) - 1) % 65536, n),
          rd |-> [f.rd EXCEPT !.acc = Shr(@, n), !.bits = @ - n, !.nread = @ + n]]

\* BitReader::read_bits(n, order): order TRUE is LSB first, FALSE is MSB first
read_bits(inp, rd, n, order) ==
    IF n > 16 THEN [kind |-> "panic", fault |-> "assert n <= 16", val |-> 0, rd |-> rd]
    ELSE ReadBitsTake(Refill(inp, rd, n), n, order)

\* --------------------------------------------------------------- huffman
\* *v.iter().max().unwrap() of a non-empty vector
RECURSIVE MaxOf(_, _, _)
MaxOf(v, lo, hi) ==
    IF lo = hi THEN v[lo]
    ELSE LET mid == (lo + hi) \div 2 IN Max(MaxOf(v, lo, mid), MaxOf(v, mid + 1, hi))

\* HuffmanDec::new()
NewHuffmanDec == [count |-> <<>>, symbol |-> <<>>]

\* the last loop of gen_huffman_dec over the symbols lo-1 .. hi-1 (0-based):
\* symbol[offsets[len]] = sym; offsets[len] += 1.  st.oob records an index
\* past the end of symbol.
RECURSIVE DecFill(_, _, _, _)
DecFill(lengths, lo, hi, st) ==
    IF lo > hi THEN st
    ELSE IF lo = hi
    THEN LET len == lengths[lo] IN
         IF len = 0 \/ st.oob THEN st
         ELSE IF st.offsets[len + 1] >= Len(st.symbol) THEN [st EXCEPT !.oob = TRUE]
         ELSE [st EXCEPT !.symbol[st.offsets[len + 1] + 1] = lo - 1,
                         !.offsets[len + 1] = @ + 1]
    ELSE LET mid == (lo + hi) \div 2
             half == DecFill(lengths, lo, mid, st)
         IN After(half, DecFill(lengths, mid + 1, hi, half))

\* offsets[i + 1] = offsets[i] + count[i] for i in 1 .. max_bits - 1
RECURSIVE DecOffsets(_, _, _)
DecOffsets(count, i, offsets) ==
    IF i + 1 > Len(count) - 1 THEN offsets
    ELSE DecOffsets(count, i + 1, [offsets EXCEPT ![i + 2] = offsets[i + 1] + count[i + 1]])

\* gen_huffman_dec, its end: st is what the loop over the symbols left
GenDecDone(count, st) ==
    IF st.oob
    THEN [kind |-> "panic", fault |-> "symbol index out of range", dec |-> NewHuffmanDec]
    ELSE [kind |-> "ok", fault |-> "", dec |-> [count |-> count, symbol |-> st.symbol]]

\* gen_huffman_dec, from the offsets on: count[l] symbols have length l
GenDecSymbols(lengths, n, count) ==
    GenDecDone(count,
               DecFill(lengths, 1, Min(Len(lengths), n),
                       [offsets |-> DecOffsets(count, 1, [l \in 1..Len(count) |-> 0]),
                        symbol |-> [k \in 1..n |-> 0], oob |-> FALSE]))

\* gen_huffman_dec, from assert!(max_bits <= MAX_NUM_BITS) on
GenDecCount(lengths, n, max_bits) ==
    IF max_bits > MAX_NUM_BITS
    THEN [kind |-> "panic", fault |-> "assert max_bits <= MAX_NUM_BITS", dec |-> NewHuffmanDec]
    ELSE GenDecSymbols(lengths, n,
                       [l \in 1..(max_bits + 1) |->
                           IF l = 1 THEN 0
                           ELSE Cardinality({i \in 1..Len(lengths) : lengths[i] = l - 1})])

\* pub fn gen_huffman_dec(lengths: &[u8], n: u16) -> HuffmanDec
gen_huffman_dec(lengths, n) ==
    IF Len(lengths) = 0
    THEN [kind |-> "panic", fault |-> "unwrap of max() of no lengths", dec |-> NewHuffmanDec]
    ELSE GenDecCount(lengths, n, MaxOf(lengths, 1, Len(lengths)))

\* the inner loop of read_code: while dec.count[b] == 0 { e += 1; b += 1; }
\* be = <<b, e>>; b = -1 stands for the index out of range
RECURSIVE SkipEmpty(_, _, _)
SkipEmpty(count, b, e) ==
    IF b >= Len(count) THEN <<-1, e>>
    ELSE IF count[b + 1] = 0 THEN SkipEmpty(count, b + 1, e + 1)
    ELSE <<b, e>>

RECURSIVE ReadCodeLoop(_, _, _, _)

\* a turn of the outer loop of read_code once its e bits are read: r is the
\* read, bits = bits << e | r.val, first = first << e, ct = dec.count[b]
ReadCodeMatch(inp, dec, st, b, r, bits, first, ct) ==
    IF bits >= first /\ bits < first + ct
    THEN IF st.index + bits - first >= Len(dec.symbol)
         THEN [kind |-> "panic", fault |-> "dec.symbol index out of range", val |-> 0, rd |-> r.rd]
         ELSE [kind |-> "ok", fault |-> "",
               val |-> dec.symbol[st.index + bits - first + 1], rd |-> r.rd]
    ELSE ReadCodeLoop(inp, r.rd, dec,
                      [b |-> b, bits |-> bits, index |-> st.index + ct, first |-> first + ct])

\* a turn of the outer loop from the read of e bits on
ReadCodeBits(inp, dec, st, b, e, r) ==
    IF r.kind # "ok" THEN r
    ELSE ReadCodeMatch(inp, dec, st, b, r, BitOr(Shl16(st.bits, e), r.val),
                       Shl16(st.first, e), dec.count[b + 1])

\* a turn of the outer loop after the inner loop, which left be = <<b, e>>
ReadCodeSkipped(inp, rd, dec, st, be) ==
    IF be[1] = -1
    THEN [kind |-> "panic", fault |-> "dec.count index out of range", val |-> 0, rd |-> rd]
    ELSE ReadCodeBits(inp, dec, st, be[1], be[2], read_bits(inp, rd, be[2], FALSE))

\* the outer loop of read_code, st = [b, bits, index, first]
ReadCodeLoop(inp, rd, dec, st) ==
    IF ~(st.b < Len(dec.count))
    THEN [kind |-> "err", fault |-> "Illegal Huffman code", val |-> 0, rd |-> rd]
    ELSE ReadCodeSkipped(inp, rd, dec, st, SkipEmpty(dec.count, st.b + 1, 1))

\* pub fn read_code(reader, dec) -> Result<u16, Error>
read_code(inp, rd, dec) ==
    IF Len(dec.count) = 1
    THEN [kind |-> "panic", fault |-> "debug_assert_ne count.len() 1 / count[1] out of range",
          val |-> 0, rd |-> rd]
    ELSE ReadCodeLoop(inp, rd, dec, [b |-> 0, bits |-> 0, index |-> 0, first |-> 0])

\* the loop of next_code with the shift left out: code = code + bl_count[bits]
RECURSIVE EncNextCodeUnshifted(_, _, _, _)
EncNextCodeUnshifted(bl_count, bits, code, next_code) ==
    IF bits > Len(bl_count) - 2 THEN next_code
    ELSE LET c == (code + bl_count[bits + 1]) % 65536 IN
         EncNextCodeUnshifted(bl_count, bits + 1, c, [next_code EXCEPT ![bits + 2] = c])

\* next_code[bits + 1] = code = (code + bl_count[bits]) << 1 for bits in 0 .. max_bits - 1
RECURSIVE EncNextCode(_, _, _, _)
EncNextCode(bl_count, bits, code, next_code) ==
    IF bits > Len(bl_count) - 2 THEN next_code
    ELSE LET c == Shl16((code + bl_count[bits + 1]) % 65536, 1) IN
         EncNextCode(bl_count, bits + 1, c, [next_code EXCEPT ![bits + 2] = c])

\* the last loop of gen_huffman_enc over the symbols lo-1 .. hi-1:
\* enc[n] = (reverse(next_code[len], len), len); next_code[len] += 1
RECURSIVE EncFill(_, _, _, _)
EncFill(v, lo, hi, st) ==
    IF lo > hi THEN st
    ELSE IF lo = hi
    THEN LET len == v[lo] IN
         IF len = 0 THEN st
         ELSE [st EXCEPT !.enc[lo] = <<reverse(st.next_code[len + 1], len), len>>,
                         !.next_code[len + 1] = (@ + 1) % 65536]
    ELSE LET mid == (lo + hi) \div 2
             half == EncFill(v, lo, mid, st)
         IN After(half, EncFill(v, mid + 1, hi, half))

\* pub fn gen_huffman_enc(v: &[u8]) -> Vec<(Bits, u8)>; v is not empty and
\* its lengths are at most 16 (reverse underflows beyond)
gen_huffman_enc(v) ==
    LET max_bits == MaxOf(v, 1, Len(v))
        bl_count == [l \in 1..(max_bits + 1) |->
                        IF l = 1 THEN 0
                        ELSE Cardinality({i \in 1..Len(v) : v[i] = l - 1})]
        next_code == EncNextCode(bl_count, 0, 0, [l \in 1..(max_bits + 1) |-> 0])
    IN EncFill(v, 1, Len(v), [next_code |-> next_code,
                              enc |-> [k \in 1..Len(v) |-> <<0, 0>>]]).enc

\* fixed_literal_dec with the two ranges of length 8 appended the other way
\* round: 280..287 before 0..143
FixedLiteralDecSwapped ==
    [count |-> <<0, 0, 0, 0, 0, 0, 0, 280 - 256, 144 + 288 - 280, 256 - 144>>,
     symbol |-> [k \in 1..288 |->
                    IF k <= 24 THEN 256 + (k - 1)
                    ELSE IF k <= 24 + 8 THEN 280 + (k - 25)
                    ELSE IF k <= 24 + 8 + 144 THEN k - 33
                    ELSE 144 + (k - 177)]]

\* HuffmanDec::fixed_literal_dec()
FIXED_LITERAL_DEC ==
    [count |-> <<0, 0, 0, 0, 0, 0, 0, 280 - 256, 144 + 288 - 280, 256 - 144>>,
     symbol |-> [k \in 1..288 |->
                    IF k <= 24 THEN 256 + (k - 1)
                    ELSE IF k <= 24 + 144 THEN k - 25
                    ELSE IF k <= 24 + 144 + 8 THEN 280 + (k - 169)
                    ELSE 144 + (k - 177)]]

\* HuffmanEnc::fixed_literal_enc()
FIXED_LITERAL_ENC ==
    gen_huffman_enc([k \in 1..MAX_NUM_LIT |->
                        IF k - 1 >= 256 /\ k - 1 < 280 THEN 7
                        ELSE IF k - 1 >= 144 /\ k - 1 < 256 THEN 9
                        ELSE 8])

\* ------------------------------------------------------ deflate: decoding
\* read_length once the extra bits are read
ReadLengthExtra(len, extra_bits, r) ==
    IF r.kind # "ok" THEN r
    ELSE [r EXCEPT !.val = Pow2(extra_bits) * 4 + 3
                           + ((len - 8) % 4) * Pow2(extra_bits) + r.val]

\* fn read_length(lit: u16, reader) -> Result<u16, Error>
read_length(inp, rd, lit) ==
    LET len == lit - (END_OF_BLOCK + 1) IN
    IF len < 8 THEN [kind |-> "ok", fault |-> "", val |-> len + 3, rd |-> rd]
    ELSE ReadLengthExtra(len, (len - 4) \div 4, read_bits(inp, rd, (len - 4) \div 4, TRUE))

\* read_distance once the extra bits are read
ReadDistanceExtra(dcode, extra_bits, r) ==
    IF r.kind # "ok" THEN r
    ELSE [r EXCEPT !.val = Pow2(extra_bits) * (2 + (dcode % 2)) + r.val + 1]

\* fn read_distance(dcode: u16, reader) -> Result<u16, Error>
read_distance(inp, rd, dcode) ==
    IF dcode > 3
    THEN ReadDistanceExtra(dcode, (dcode - 2) \div 2,
                           read_bits(inp, rd, (dcode - 2) \div 2, TRUE))
    ELSE [kind |-> "ok", fault |-> "", val |-> dcode + 1, rd |-> rd]

\* a turn of the loop of read_code_lengths, st = [kind, fault, index, lens, rd]:
\* if s > 15 && s < 19 { assert!(index + count <= n); .. }
ReadCodeLengthsFill(n, st, len, count, rd) ==
    IF ~(st.index + count <= n)
    THEN [st EXCEPT !.kind = "panic", !.fault = "assert index + count <= n", !.rd = rd]
    ELSE [st EXCEPT !.lens = [k \in 1..n |->
                                 IF k > st.index /\ k <= st.index + count THEN len ELSE @[k]],
                    !.index = @ + count, !.rd = rd]

\* the arms 16, 17, 18 of the match once the repeat count is read
ReadCodeLengthsRepeat(n, st, s, len, r) ==
    IF r.kind # "ok" THEN [st EXCEPT !.kind = r.kind, !.fault = r.fault, !.rd = r.rd]
    ELSE ReadCodeLengthsFill(n, st, len, r.val + (IF s = 18 THEN 11 ELSE 3), r.rd)

\* match s { 0...15 => .., 16 => .., 17 => .., 18 => .., _ => Err }
ReadCodeLengthsMatch(inp, n, st, s, rd) ==
    IF s <= 15
    THEN [st EXCEPT !.lens[st.index + 1] = s, !.index = @ + 1, !.rd = rd]
    ELSE IF s > 18
    THEN [st EXCEPT !.kind = "err", !.fault = "Bad code length", !.rd = rd]
    ELSE IF s = 16 /\ st.index = 0
    THEN [st EXCEPT !.kind = "panic", !.fault = "lens[index - 1] with index 0", !.rd = rd]
    ELSE ReadCodeLengthsRepeat(n, st, s, IF s = 16 THEN st.lens[st.index] ELSE 0,
                               read_bits(inp, rd, IF s = 16 THEN 2 ELSE IF s = 17 THEN 3 ELSE 7,
                                         TRUE))

\* let s = try!(read_code(reader, clen_dec)) as u8
ReadCodeLengthsSymbol(inp, n, st, c) ==
    IF c.kind # "ok" THEN [st EXCEPT !.kind = c.kind, !.fault = c.fault, !.rd = c.rd]
    ELSE ReadCodeLengthsMatch(inp, n, st, c.val % 256, c.rd)

\* one turn of the loop of read_code_lengths
ReadCodeLengthsBody(inp, clen_dec, n, st) ==
    IF st.kind # "ok" \/ ~(st.index < n) THEN st
    ELSE ReadCodeLengthsSymbol(inp, n, st, read_code(inp, st.rd, clen_dec))

\* the loop while index < n, run as at most hi - lo + 1 turns (each turn that
\* does not fail advances index)
RECURSIVE ReadCodeLengthsLoop(_, _, _, _, _, _)
ReadCodeLengthsLoop(inp, clen_dec, n, lo, hi, st) ==
    IF lo > hi \/ st.kind # "ok" \/ ~(st.index < n) THEN st
    ELSE IF lo = hi THEN ReadCodeLengthsBody(inp, clen_dec, n, st)
    ELSE LET mid == (lo + hi) \div 2
             half == ReadCodeLengthsLoop(inp, clen_dec, n, lo, mid, st)
         IN After(half, ReadCodeLengthsLoop(inp, clen_dec, n, mid + 1, hi, half))

\* fn read_code_lengths(reader, clen_dec, n) -> Result<Vec<u8>, Error>
read_code_lengths(inp, rd, clen_dec, n) ==
    ReadCodeLengthsLoop(inp, clen_dec, n, 1, n,
                        [kind |-> "ok", fault |-> "", index |-> 0,
                         lens |-> [k \in 1..n |-> 0], rd |-> rd])

RECURSIVE ReadHclen(_, _, _, _)

\* hclen_len[*i] = try!(reader.read_bits(3, true)) as u8
ReadHclenBits(inp, i, hclen, st, r) ==
    IF r.kind # "ok" THEN [st EXCEPT !.kind = r.kind, !.fault = r.fault, !.rd = r.rd]
    ELSE ReadHclen(inp, i + 1, hclen,
                   [st EXCEPT !.lens[HCLEN_ORDER[i + 1] + 1] = r.val % 256, !.rd = r.rd])

\* for i in HCLEN_ORDER.iter().take(hclen) { hclen_len[*i] = read_bits(3) }
ReadHclen(inp, i, hclen, st) ==
    IF i >= hclen \/ st.kind # "ok" THEN st
    ELSE ReadHclenBits(inp, i, hclen, st, read_bits(inp, st.rd, 3, TRUE))

\* an Err or a panic out of read_code_table
TableFail(r, rd) ==
    [kind |-> r.kind, fault |-> r.fault, rd |-> rd, dec |-> <<NewHuffmanDec, NewHuffmanDec>>]

\* read_code_table: Ok((gen_huffman_dec(..), gen_huffman_dec(..)))
ReadTableDone(rd, d0, d1) ==
    IF d0.kind # "ok" THEN TableFail(d0, rd)
    ELSE IF d1.kind # "ok" THEN TableFail(d1, rd)
    ELSE [kind |-> "ok", fault |-> "", rd |-> rd, dec |-> <<d0.dec, d1.dec>>]

\* read_code_table once hdist_len is read
ReadTableDecs(hlit, hdist, lit_lens, hdist_len) ==
    IF hdist_len.kind # "ok" THEN TableFail(hdist_len, hdist_len.rd)
    ELSE ReadTableDone(hdist_len.rd, gen_huffman_dec(lit_lens, hlit),
                       gen_huffman_dec(hdist_len.lens, hdist))

\* read_code_table once hlit_len is read
ReadTableDist(inp, hlit, hdist, clen_dec, hlit_len) ==
    IF hlit_len.kind # "ok" THEN TableFail(hlit_len, hlit_len.rd)
    ELSE ReadTableDecs(hlit, hdist, hlit_len.lens,
                       read_code_lengths(inp, hlit_len.rd, clen_dec, hdist))

\* read_code_table once clen_dec is generated
ReadTableLit(inp, hlit, hdist, rd, clen_dec) ==
    IF clen_dec.kind # "ok" THEN TableFail(clen_dec, rd)
    ELSE ReadTableDist(inp, hlit, hdist, clen_dec.dec,
                       read_code_lengths(inp, rd, clen_dec.dec, hlit))

\* read_code_table once the lengths of the code length codes are read
ReadTableClen(inp, hlit, hdist, h) ==
    IF h.kind # "ok" THEN TableFail(h, h.rd)
    ELSE ReadTableLit(inp, hlit, hdist, h.rd, gen_huffman_dec(h.lens, Len(HCLEN_ORDER)))

\* read_code_table once hclen is read
ReadTableHclen(inp, hlit, hdist, r3) ==
    IF r3.kind # "ok" THEN TableFail(r3, r3.rd)
    ELSE IF ~(hlit <= 286 /\ r3.val + 4 <= Len(HCLEN_ORDER) /\ hdist <= 32)
    THEN TableFail([kind |-> "panic",
                    fault |-> "assert hlit <= 286 && hclen <= max_hclen && hdist <= 32"],
                   r3.rd)
    ELSE ReadTableClen(inp, hlit, hdist,
                       ReadHclen(inp, 0, r3.val + 4,
                                 [kind |-> "ok", fault |-> "", rd |-> r3.rd,
                                  lens |-> [k \in 1..Len(HCLEN_ORDER) |-> 0]]))

\* read_code_table once hdist is read
ReadTableHdist(inp, hlit, r2) ==
    IF r2.kind # "ok" THEN TableFail(r2, r2.rd)
    ELSE ReadTableHclen(inp, hlit, r2.val + 1, read_bits(inp, r2.rd, 4, TRUE))

\* read_code_table once hlit is read
ReadTableHlit(inp, r1) ==
    IF r1.kind # "ok" THEN TableFail(r1, r1.rd)
    ELSE ReadTableHdist(inp, r1.val + 257, read_bits(inp, r1.rd, 5, TRUE))

\* fn read_code_table(reader) -> Result<(HuffmanDec, HuffmanDec), Error>
read_code_table(inp, rd) == ReadTableHlit(inp, read_bits(inp, rd, 5, TRUE))

\* --------------------------------------------------------------- inflate
\* crc::crc32::Digest (an external crate) is held as the bytes written to it,
\* in order; sum32 is the CRC-32 of exactly those bytes
NewDigest == <<>>
DigestWrite(h, bytes) == h \o bytes
sum32(h) == [crc32_of |-> h]

NoToken == [kind |-> "none", lit |-> 0, len |-> 0, dist |-> 0]
NoResult == [kind |-> "none", fault |-> "", size |-> 0, crc |-> sum32(NewDigest)]

\* The state of one call of inflate.  pc: "begin" before the first statement,
\* "loop" at the head of the loop, "done" once the call has returned or
\* panicked.  tok (the symbol the last turn decoded) and decoded (every byte
\* decoded so far, in order) are history; output is what the BufWriter was
\* given (output.write takes all of a slice: its callers pass a Vec or a File).
InflateBegin(inp) ==
    [pc |-> "begin", reader |-> NewReader, last_block_bit |-> 0, block_type |-> 0,
     dec |-> <<NewHuffmanDec, NewHuffmanDec>>, window |-> <<>>, capacity |-> 0,
     output |-> <<>>, hasher |-> NewDigest, decompressed_size |-> 0,
     result |-> NoResult, tok |-> NoToken, decoded |-> <<>>]

\* a return of Err, or a panic, out of inflate
InflateFail(s, r) ==
    [s EXCEPT !.pc = "done", !.reader = r.rd,
              !.result = [kind |-> r.kind, fault |-> r.fault, size |-> 0,
                          crc |-> sum32(NewDigest)]]

\* inflate: dec = try!(read_code_table(&mut reader)), t is what it returned
InflateDynamic(loop, t) ==
    IF t.kind # "ok" THEN InflateFail(loop, t)
    ELSE [loop EXCEPT !.reader = t.rd, !.dec = t.dec]

\* inflate: match block_type, r2 is the read of its two bits
InflateBlockType(inp, s, r2) ==
    LET loop == [s EXCEPT !.pc = "loop", !.block_type = r2.val % 256,
                          !.capacity = MAX_DIST + MAX_LEN]
    IN IF r2.kind # "ok" THEN InflateFail(s, r2)
       ELSE IF r2.val % 256 = 2 THEN InflateDynamic(loop, read_code_table(inp, r2.rd))
       ELSE IF r2.val % 256 \in {0, 1} THEN [loop EXCEPT !.reader = r2.rd]
       ELSE InflateFail(loop, [kind |-> "err", fault |-> "Bad block type", rd |-> r2.rd])

\* inflate: r1 is the read of last_block_bit
InflateLastBlockBit(inp, s, r1) ==
    IF r1.kind # "ok" THEN InflateFail(s, r1)
    ELSE InflateBlockType(inp, [s EXCEPT !.last_block_bit = r1.val],
                          read_bits(inp, r1.rd, 2, TRUE))

\* inflate, lines 319-341: the block header and, for a dynamic block, the
\* code table
inflate_header(inp, s) == InflateLastBlockBit(inp, s, read_bits(inp, s.reader, 1, TRUE))

\* the arm 0...255 with window[0] in place of window.remove(0): the front
\* byte is written and hashed and stays in the window
InflateLiteralKeepsFront(s, rd, lit) ==
    LET byte == lit % 256
        full_window == Len(s.window) = MAX_DIST
        b == <<s.window[1]>>
    IN [s EXCEPT !.reader = rd,
                 !.output = IF full_window THEN @ \o b ELSE @,
                 !.hasher = IF full_window THEN DigestWrite(@, b) ELSE @,
                 !.window = Append(@, byte),
                 !.capacity = IF Len(s.window) = @ THEN Max(2 * @, Len(s.window) + 1)
                              ELSE @,
                 !.decompressed_size = @ + 1,
                 !.tok = [kind |-> "literal", lit |-> lit, len |-> 0, dist |-> 0],
                 !.decoded = Append(@, byte)]

\* the arm 0...255 of the loop
inflate_literal(s, rd, lit) ==
    LET byte == lit % 256
        flush == Len(s.window) = MAX_DIST
        b == <<s.window[1]>>
        w == IF flush THEN Tail(s.window) ELSE s.window
    IN [s EXCEPT !.reader = rd,
                 !.output = IF flush THEN @ \o b ELSE @,
                 !.hasher = IF flush THEN DigestWrite(@, b) ELSE @,
                 !.window = Append(w, byte),
                 !.capacity = IF Len(w) = @ THEN Max(2 * @, Len(w) + 1) ELSE @,
                 !.decompressed_size = @ + 1,
                 !.tok = [kind |-> "literal", lit |-> lit, len |-> 0, dist |-> 0],
                 !.decoded = Append(@, byte)]

\* the arm END_OF_BLOCK and the statements after the loop
inflate_end(s, rd) ==
    LET h == DigestWrite(s.hasher, s.window) IN
    [s EXCEPT !.pc = "done", !.reader = rd,
              !.output = @ \o s.window,
              !.hasher = h,
              !.tok = [kind |-> "end", lit |-> END_OF_BLOCK, len |-> 0, dist |-> 0],
              !.result = [kind |-> "ok", fault |-> "", size |-> s.decompressed_size,
                          crc |-> sum32(h)]]

\* the copy arm without the repeat of the trailing segment: past the dist
\* bytes that stand in the window the last of them is taken again and again
InflateCopyNoRepeat(s, tok, len, dist, rd) ==
    LET wl == Len(s.window)
        over == wl + len > s.capacity
        to_write == wl + len - s.capacity
        front == SubSeq(s.window, 1, to_write)
        w == IF over THEN SubSeq(s.window, to_write + 1, wl) ELSE s.window
        cur_len == IF len > dist THEN dist ELSE len
        first == Len(w) - dist
        dl == Len(s.decoded)
    IN IF ~(dist > 0 /\ dist < MAX_DIST /\ dist <= wl)
       THEN InflateFail([s EXCEPT !.tok = tok],
                        [kind |-> "panic", fault |-> "assert", rd |-> rd])
       ELSE [s EXCEPT !.reader = rd,
                      !.output = IF over THEN @ \o front ELSE @,
                      !.hasher = IF over THEN DigestWrite(@, front) ELSE @,
                      !.window = w \o [k \in 1..len |-> w[first + Min(k, cur_len)]],
                      !.decompressed_size = @ + len,
                      !.tok = tok,
                      !.decoded = @ \o [k \in 1..len |->
                                           s.decoded[dl - dist + ((k - 1) % dist) + 1]]]

\* the arm 257...285 from assert!(dist > 0 && dist < MAX_DIST) on
InflateCopyBytes(s, tok, len, dist, rd) ==
    LET wl == Len(s.window)
        over == wl + len > s.capacity
        to_write == wl + len - s.capacity
        front == SubSeq(s.window, 1, to_write)
        w == IF over THEN SubSeq(s.window, to_write + 1, wl) ELSE s.window
        cur_len == IF len > dist THEN dist ELSE len
        first == Len(w) - dist
        dl == Len(s.decoded)
    IN IF ~(dist > 0 /\ dist < MAX_DIST)
       THEN InflateFail([s EXCEPT !.tok = tok],
                        [kind |-> "panic", fault |-> "assert dist > 0 && dist < MAX_DIST",
                         rd |-> rd])
       ELSE IF ~(dist <= wl)
       THEN InflateFail([s EXCEPT !.tok = tok],
                        [kind |-> "panic", fault |-> "assert dist <= window.len()",
                         rd |-> rd])
       ELSE [s EXCEPT !.reader = rd,
                      !.output = IF over THEN @ \o front ELSE @,
                      !.hasher = IF over THEN DigestWrite(@, front) ELSE @,
                      !.window = w \o [k \in 1..len |-> w[first + ((k - 1) % cur_len) + 1]],
                      !.decompressed_size = @ + len,
                      !.tok = tok,
                      !.decoded = @ \o [k \in 1..len |->
                                           s.decoded[dl - dist + ((k - 1) % dist) + 1]]]

\* the arm 257...285: ds is what read_distance returned
InflateCopyDistance(s, lit, len, ds) ==
    IF ds.kind # "ok" THEN InflateFail(s, ds)
    ELSE InflateCopyBytes(s, [kind |-> "copy", lit |-> lit, len |-> len, dist |-> ds.val],
                          len, ds.val, ds.rd)

\* the arm 257...285: d is the read of dcode
InflateCopyCode(inp, s, lit, len, d) ==
    IF d.kind # "ok" THEN InflateFail(s, d)
    ELSE IF ~(d.val < NUM_DIST_CODE)
    THEN InflateFail(s, [kind |-> "panic", fault |-> "assert dcode < NUM_DIST_CODE",
                         rd |-> d.rd])
    ELSE InflateCopyDistance(s, lit, len, read_distance(inp, d.rd, d.val))

\* the arm 257...285: l is what read_length returned
InflateCopyLength(inp, s, lit, l) ==
    IF l.kind # "ok" THEN InflateFail(s, l)
    ELSE IF ~(l.val <= MAX_LEN)
    THEN InflateFail(s, [kind |-> "panic", fault |-> "assert len <= MAX_LEN", rd |-> l.rd])
    ELSE IF s.block_type \notin {1, 2}
    THEN InflateFail(s, [kind |-> "err", fault |-> "Bad block type; Shouldn't reach here",
                         rd |-> l.rd])
    ELSE InflateCopyCode(inp, s, lit, l.val,
                         IF s.block_type = 1 THEN read_bits(inp, l.rd, 5, FALSE)
                         ELSE read_code(inp, l.rd, s.dec[2]))

\* the arm 257...285 of the loop
inflate_copy(inp, s, rd, lit) == InflateCopyLength(inp, s, lit, read_length(inp, rd, lit))

\* match lit { 0...255 => .., END_OF_BLOCK => .., 257...285 => .., _ => Err }
InflateSymbol(inp, s, c) ==
    IF c.kind # "ok" THEN InflateFail(s, c)
    ELSE IF c.val <= 255 THEN inflate_literal(s, c.rd, c.val)
    ELSE IF c.val = END_OF_BLOCK THEN inflate_end(s, c.rd)
    ELSE IF c.val <= 285 THEN inflate_copy(inp, s, c.rd, c.val)
    ELSE InflateFail(s, [kind |-> "err", fault |-> "Bad literal", rd |-> c.rd])

\* one turn of the loop of inflate (lines 342-413), and what follows the loop
inflate_turn(inp, s) ==
    InflateSymbol(inp, s,
                  IF s.block_type = 0 THEN read_bits(inp, s.reader, 8, FALSE)
                  ELSE IF s.block_type = 1 THEN read_code(inp, s.reader, FIXED_LITERAL_DEC)
                  ELSE read_code(inp, s.reader, s.dec[1]))

\* pub fn inflate(input, output) -> Result<(u32, u32), Error>, run to its end
RECURSIVE InflateRun(_, _)
InflateRun(inp, s) ==
    IF s.pc = "done" THEN s
    ELSE InflateRun(inp, IF s.pc = "begin" THEN inflate_header(inp, s)
                         ELSE inflate_turn(inp, s))

inflate(inp) == InflateRun(inp, InflateBegin(inp))

\* ---------------------------------------------------- bitstream: writing
\* BitWriter::new
NewWriter == [bits |-> 0, acc |-> 0]

\* write_bits once the bits are in the accumulator: the whole bytes go out
WriteBitsOut(acc, bits) ==
    [kind |-> "ok", fault |-> "",
     w |-> [bits |-> bits % 8, acc |-> Shr(acc, 8 * (bits \div 8))],
     bytes |-> [k \in 1..(bits \div 8) |-> BitAnd(Shr(acc, 8 * (k - 1)), 255)]]

\* BitWriter::write_bits(b, n, order); bytes are the bytes handed to the sink.
\* 1 << n is a u16: for n = 16 the shift overflows, a panic with overflow
\* checks and 1 << 0 without.
write_bits(w, b, n, order) ==
    IF ~(n <= 16)
    THEN [kind |-> "panic", fault |-> "assert n <= 16", w |-> w, bytes |-> <<>>]
    ELSE IF n = 16 /\ (overflow_checks \/ b > 1)
    THEN [kind |-> "panic", fault |-> "assert b <= 1 << n", w |-> w, bytes |-> <<>>]
    ELSE IF n < 16 /\ ~(b <= Pow2(n))
    THEN [kind |-> "panic", fault |-> "assert b <= 1 << n", w |-> w, bytes |-> <<>>]
    ELSE WriteBitsOut(BitOr(w.acc, Shl32(IF order THEN b ELSE reverse(b, n), w.bits)),
                      w.bits + n)

\* BitWriter::flush
flush(w) ==
    IF w.bits > 0
    THEN IF ~(w.bits < 8)
         THEN [kind |-> "panic", fault |-> "assert bits < 8", w |-> w, bytes |-> <<>>]
         ELSE [kind |-> "ok", fault |-> "", w |-> NewWriter, bytes |-> <<w.acc % 256>>]
    ELSE [kind |-> "ok", fault |-> "", w |-> w, bytes |-> <<>>]

\* deflate.rs calls a BitWriter whose write_bits(b, n) returns the bytes it
\* completed and whose codes come reversed out of gen_huffman_enc: the writer
\* above, LSB first
WriteBits(w, b, n) == write_bits(w, b, n, TRUE)

\* st = [kind, fault, w, bytes] with the bytes of one more write, r
Written(st, r) ==
    [kind |-> r.kind, fault |-> r.fault, w |-> r.w, bytes |-> st.bytes \o r.bytes]

\* a sequence of (bits, length) pairs written in turn, lo .. hi of fields;
\* st = [kind, fault, w, bytes]
RECURSIVE WriteFields(_, _, _, _)
WriteFields(fields, lo, hi, st) ==
    IF lo > hi \/ st.kind # "ok" THEN st
    ELSE IF lo = hi THEN Written(st, WriteBits(st.w, fields[lo][1], fields[lo][2]))
    ELSE LET mid == (lo + hi) \div 2
             half == WriteFields(fields, lo, mid, st)
         IN After(half, WriteFields(fields, mid + 1, hi, half))

\* every pair of fields written in turn by a writer that starts as w
WriteAll(fields, w) ==
    WriteFields(fields, 1, Len(fields),
                [kind |-> "ok", fault |-> "", w |-> w, bytes |-> <<>>])

\* ------------------------------------------------------ deflate: encoding
\* fn length_code(len: usize) -> Result<(usize, u8), Error>
length_code(len) ==
    LET ok(c, e) == [kind |-> "ok", code |-> c, bits |-> e] IN
    IF len >= 3 /\ len <= 10 THEN ok(len + 254, 0)
    ELSE IF len >= 11 /\ len <= 18 THEN ok(260 + Shr(len + 1, 1), 1)
    ELSE IF len >= 19 /\ len <= 34 THEN ok(264 + Shr(len + 1, 2), 2)
    ELSE IF len >= 35 /\ len <= 66 THEN ok(269 + Shr(len - 3, 3), 3)
    ELSE IF len >= 67 /\ len <= 130 THEN ok(273 + Shr(len - 3, 4), 4)
    ELSE IF len >= 131 /\ len <= 257 THEN ok(277 + Shr(len - 3, 5), 5)
    ELSE IF len = 258 THEN ok(285, 6)
    ELSE [kind |-> "err", code |-> 0, bits |-> 0]

\* (x as f32).log2().floor() as usize, for x < 2^24: the float cast of -inf
\* (x = 0) saturates to 0
RECURSIVE FloorLog2(_)
FloorLog2(x) == IF x <= 1 THEN 0 ELSE 1 + FloorLog2(x \div 2)

\* fn dist_code(dist: usize) -> Result<(usize, u8), Error>.  dist - 5 overflows
\* below 5: a panic in a build with overflow checks; without them dm5 wraps
\* to 2^64 + dist - 5, whose log2 as f32 is 64, and dm5 + 4 wraps to dist - 1.
dist_code(dist) ==
    IF dist < 5
    THEN IF overflow_checks THEN [kind |-> "panic", code |-> 0, bits |-> 0]
         ELSE IF dist >= 1 THEN [kind |-> "ok", code |-> dist - 1, bits |-> 64]
         ELSE [kind |-> "err", code |-> 0, bits |-> 0]
    ELSE LET dm5 == dist - 5
             bits == FloorLog2(dm5)
         IN IF dist <= 32768 THEN [kind |-> "ok", code |-> Shr(dm5, bits) + 4, bits |-> bits]
            ELSE [kind |-> "err", code |-> 0, bits |-> 0]

Single(c) == [single |-> TRUE, code |-> c, repeat |-> 0]
\* (RepeatAlwaysSixteen: code 16 whatever the run)
RepeatAlwaysSixteen(c, r) == [single |-> FALSE, code |-> 16, repeat |-> r]
\* (RepeatOneMore: a count one too high)
RepeatOneMore(c, r) == [single |-> FALSE, code |-> c, repeat |-> r + 1]
Repeat(c, r) == [single |-> FALSE, code |-> c, repeat |-> r]

\* one turn of the loop of encode_code_lengths, at index i (0-based);
\* st = [illegal, v, repeat, prev]
EncodeCodeLengthsBody(clen, i, st) ==
    LET len == Len(clen)
        cur == clen[i + 1]
        run == cur = st.prev /\ (st.repeat < 6 \/ cur = 0) /\ st.repeat < 138
        repeat == IF run THEN st.repeat + 1 ELSE st.repeat
        cur_dump == ~run
        prev == st.prev
        rep2 == IF prev # 0 THEN repeat + 1 ELSE repeat
        dumped ==
            IF repeat = 0 THEN (IF i > 0 THEN <<Single(prev)>> ELSE <<>>)
            ELSE IF repeat <= 2 THEN [k \in 1..rep2 |-> Single(prev)]
            ELSE IF repeat <= 10
            THEN (IF prev # 0 THEN <<Single(prev)>> ELSE <<>>)
                 \o <<Repeat(IF prev = 0 THEN 17 ELSE 16, repeat - 3)>>
            ELSE <<Repeat(18, repeat - 11)>>
        last == IF cur_dump /\ i = len - 1 THEN <<Single(cur)>> ELSE <<>>
    IN IF st.illegal THEN st
       ELSE IF run /\ i # len - 1 THEN [st EXCEPT !.repeat = repeat]
       ELSE IF repeat > 138 THEN [st EXCEPT !.illegal = TRUE]
       ELSE [st EXCEPT !.v = @ \o dumped \o last,
                       !.repeat = IF cur # 0 THEN 0 ELSE 1,
                       !.prev = cur]

RECURSIVE EncodeCodeLengthsLoop(_, _, _, _)
EncodeCodeLengthsLoop(clen, lo, hi, st) ==
    IF lo > hi THEN st
    ELSE IF lo = hi THEN EncodeCodeLengthsBody(clen, lo, st)
    ELSE LET mid == (lo + hi) \div 2
             half == EncodeCodeLengthsLoop(clen, lo, mid, st)
         IN After(half, EncodeCodeLengthsLoop(clen, mid + 1, hi, half))

\* fn encode_code_lengths(clen: &[u8]) -> Vec<CodeLength>; illegal is the
\* panic "Illegal repeat"
encode_code_lengths(clen) ==
    EncodeCodeLengthsLoop(clen, 0, Len(clen) - 1,
                          [illegal |-> FALSE, v |-> <<>>, repeat |-> 0, prev |-> 0])

\* fn update_freq(freq: &mut Vec<usize>, eclens: &[CodeLength])
update_freq(freq, eclens) ==
    [c \in 1..Len(freq) |->
        freq[c] + Cardinality({k \in 1..Len(eclens) : eclens[k].code = c - 1})]

\* while mapped_clens.len() > 4 && last == 0 { pop }
RECURSIVE PopZeros(_, _)
PopZeros(v, min) ==
    IF Len(v) > min /\ v[Len(v)] = 0 THEN PopZeros(SubSeq(v, 1, Len(v) - 1), min) ELSE v

\* fn reordered_code_lengths(clens: &[u8]) -> Vec<u8>
reordered_code_lengths(clens) ==
    PopZeros([i \in 1..Len(HCLEN_ORDER) |->
                 IF i <= Len(clens) THEN clens[HCLEN_ORDER[i] + 1] ELSE 0], 4)

\* the (bits, length) pairs write_code_lengths writes for one CodeLength;
\* a length of 99 stands for the panic "Illegal code length Huffman code"
CodeLengthFields(cl, enc) ==
    IF cl.single THEN <<enc[cl.code + 1]>>
    ELSE <<enc[cl.code + 1],
           <<cl.repeat, IF cl.code \in {16, 17} THEN cl.code - 14
                        ELSE IF cl.code = 18 THEN 7 ELSE 99>> >>

RECURSIVE Flatten(_, _, _)
Flatten(ss, lo, hi) ==
    IF lo > hi THEN <<>>
    ELSE IF lo = hi THEN ss[lo]
    ELSE LET mid == (lo + hi) \div 2 IN Flatten(ss, lo, mid) \o Flatten(ss, mid + 1, hi)

\* the pairs that write_code_lengths writes for eclens, in order
CodeLengthsFields(eclens, enc) ==
    Flatten([k \in 1..Len(eclens) |-> CodeLengthFields(eclens[k], enc)], 1, Len(eclens))

\* fn write_code_lengths(writer, eclens, enc) -> Vec<u8>
write_code_lengths(w, eclens, enc) == WriteAll(CodeLengthsFields(eclens, enc), w)

\* ------------------------------------------------ huffman: assign_lengths
\* A Char of the heap is [freq, leaves]: leaves is the set of <<val, depth>>
\* of the leaves below it.  impl Ord for Char flips the order on freq, so
\* a <= b in the heap's order is b.freq <= a.freq.
\* (CharLeUnflipped: the order of the frequencies themselves, a max-heap)
CharLeUnflipped(a, b) == a.freq <= b.freq

\* impl Ord for Char: other.freq.cmp(&self.freq)
CharLe(a, b) == b.freq <= a.freq

\* BinaryHeap::sift_up(0, pos) on a 0-based vector held as a sequence
RECURSIVE sift_up(_, _)
sift_up(data, pos) ==
    IF pos = 0 THEN data
    ELSE LET parent == (pos - 1) \div 2 IN
         IF CharLe(data[pos + 1], data[parent + 1]) THEN data
         ELSE sift_up([data EXCEPT ![pos + 1] = data[parent + 1],
                                   ![parent + 1] = data[pos + 1]], parent)

\* BinaryHeap::push
HeapPush(data, c) == sift_up(Append(data, c), Len(data))

\* BinaryHeap::sift_down_to_bottom(0): the hole goes down to a leaf along the
\* greater child, then the element sifts up from there
RECURSIVE sift_down_to_bottom(_, _)
sift_down_to_bottom(data, pos) ==
    LET end == Len(data)
        child == 2 * pos + 1
        swap(c) == [data EXCEPT ![pos + 1] = data[c + 1], ![c + 1] = data[pos + 1]]
    IN IF child <= Max(end - 2, 0)
       THEN LET c == IF CharLe(data[child + 1], data[child + 2]) THEN child + 1 ELSE child
            IN sift_down_to_bottom(swap(c), c)
       ELSE IF child = end - 1 THEN sift_up(swap(child), child)
       ELSE sift_up(data, pos)

\* BinaryHeap::pop on a non-empty heap: [item, data]
HeapPop(data) ==
    LET n == Len(data)
        last == data[n]
        rest == SubSeq(data, 1, n - 1)
    IN IF n = 1 THEN [item |-> last, data |-> <<>>]
       ELSE [item |-> data[1],
             data |-> sift_down_to_bottom([rest EXCEPT ![1] = last], 0)]

\* for (c, f) in v.iter().enumerate() { if *f > 0 { heap.push(..) } }, c in lo..hi
RECURSIVE HeapFill(_, _, _, _)
HeapFill(v, lo, hi, st) ==
    IF lo > hi THEN st
    ELSE IF lo = hi
    THEN IF v[lo + 1] > 0
         THEN [data |-> HeapPush(st.data, [freq |-> v[lo + 1], leaves |-> {<<lo, 0>>}])]
         ELSE st
    ELSE LET mid == (lo + hi) \div 2
             half == HeapFill(v, lo, mid, st)
         IN After(half, HeapFill(v, mid + 1, hi, half))

\* the leaves of a Char that becomes a child: one level further from the root
Deeper(c) == {<<x[1], x[2] + 1>> : x \in c.leaves}

\* heap.push(Char { freq: l.freq + r.freq, left: l, right: r }), r = [item, data]
HeapMergePush(l, r) ==
    [data |-> HeapPush(r.data, [freq |-> l.freq + r.item.freq,
                                leaves |-> Deeper(l) \cup Deeper(r.item)])]

\* let r = heap.pop().unwrap(), l = [item, data]
HeapMergeRight(l) == HeapMergePush(l.item, HeapPop(l.data))

\* one turn of while heap.len() > 1 { pop l; pop r; push the parent }
HeapMerge(st) ==
    IF Len(st.data) <= 1 THEN st ELSE HeapMergeRight(HeapPop(st.data))

\* k turns of the merge loop
RECURSIVE HeapMergeLoop(_, _)
HeapMergeLoop(st, k) ==
    IF k <= 0 THEN st
    ELSE IF k = 1 THEN HeapMerge(st)
    ELSE LET half == HeapMergeLoop(st, k \div 2)
         IN After(half, HeapMergeLoop(half, k - k \div 2))

\* the walk down from the root: lengths[c.val] = if level > 0 { level } else { 1 }
AssignLevels(v, leaves) ==
    [kind |-> "ok",
     lengths |-> [c \in 1..Len(v) |->
         IF \E x \in leaves : x[1] = c - 1
         THEN LET level == (CHOOSE x \in leaves : x[1] = c - 1)[2]
              IN IF level > 0 THEN level ELSE 1
         ELSE 0]]

\* the merge loop and let root = heap.pop().unwrap(): the unwrap of the pop
\* from an empty heap (no frequency above zero) is the panic
AssignFromHeap(v, heap) ==
    IF Len(heap.data) = 0 THEN [kind |-> "panic", lengths |-> <<>>]
    ELSE AssignLevels(v, HeapMergeLoop(heap, Len(heap.data) - 1).data[1].leaves)

\* pub fn assign_lengths(v: &[usize]) -> Vec<u8>
assign_lengths(v) ==
    IF Len(v) = 0 THEN [kind |-> "ok", lengths |-> <<>>]
    ELSE AssignFromHeap(v, HeapFill(v, 0, Len(v) - 1, [data |-> <<>>]))

\* ---------------------------------------------------- deflate: tokens
Literal(b) == [lit |-> TRUE, val |-> b, len |-> 0, dist |-> 0]
Copy(len, dist) == [lit |-> FALSE, val |-> 0, len |-> len, dist |-> dist]

\* let mut bytes = [0 as u8; u16::MAX as usize]: the model keeps the prefix
\* that read() has filled so far; every byte behind it is still 0
ByteAt(bytes, k) == IF k < Len(bytes) THEN bytes[k + 1] ELSE 0

\* fn trans24(b: &[u8]) -> usize: the three bytes as one number
trans24(b) == b[1] + 256 * b[2] + 65536 * b[3]

\* the loop of compare from len on.  Once both positions are in the zeroed
\* tail every later pair is equal, so the loop ends at the end of the
\* buffer: i + len out of range first when i > j, j + len = 65535 otherwise.
RECURSIVE CompareLoop(_, _, _, _)
CompareLoop(bytes, i, j, len) ==
    IF ~(j + len < BUF_SIZE) THEN [kind |-> "ok", len |-> len]
    ELSE IF i + len >= BUF_SIZE THEN [kind |-> "panic", len |-> len]
    ELSE IF i + len >= Len(bytes) /\ j + len >= Len(bytes)
    THEN IF i > j THEN [kind |-> "panic", len |-> BUF_SIZE - i]
         ELSE [kind |-> "ok", len |-> BUF_SIZE - j]
    ELSE IF ByteAt(bytes, i + len) = ByteAt(bytes, j + len)
    THEN CompareLoop(bytes, i, j, len + 1)
    ELSE [kind |-> "ok", len |-> len]

\* fn compare(bytes: &[u8], i: usize, j: usize) -> usize
compare(bytes, i, j) == CompareLoop(bytes, i, j, 0)

\* while next != len && i - next < MAX_DIST { .. next = prev[next] }
RECURSIVE ChainWalk(_, _, _, _, _, _)
ChainWalk(bytes, prev, len, i, next, best) ==
    IF ~(next # len /\ i - next < MAX_DIST) THEN best
    ELSE LET c == compare(bytes, i, next) IN
         IF c.kind # "ok" THEN [best EXCEPT !.kind = "panic"]
         ELSE ChainWalk(bytes, prev, len, i, prev[next + 1],
                        IF c.len > best.max_len
                        THEN [best EXCEPT !.max_len = c.len, !.max_dist = i - next]
                        ELSE best)

\* dfreq is a vector of MAX_DIST counters of which a handful is ever above
\* zero: len is its length, nz maps the indexes that were incremented
NewFreq(n) == [len |-> n, nz |-> <<>>]
FreqAt(v, i) == IF i \in DOMAIN v.nz THEN v.nz[i] ELSE 0
FreqInc(v, i) == [v EXCEPT !.nz = (i :> (FreqAt(v, i) + 1)) @@ @]

\* while !dfreq.is_empty() && *(dfreq.last().unwrap()) == 0 { dfreq.pop(); }
FreqPopped(v) ==
    LET used == {i \in DOMAIN v.nz : v.nz[i] > 0}
        n == IF used = {} THEN 0 ELSE (CHOOSE i \in used : \A k \in used : k <= i) + 1
    IN [i \in 1..n |-> FreqAt(v, i - 1)]

\* vlz.push(LZ77::Dictionary(max_len, max_dist)) and the two counters; lc
\* and dc are length_code(max_len) and dist_code(max_dist) before the unwrap
TokenCopy(st, max_len, max_dist, lc, dc) ==
    IF lc.kind # "ok" THEN [st EXCEPT !.kind = "panic", !.fault = "length_code(max_len).unwrap()"]
    ELSE IF dc.kind = "panic"
    THEN [st EXCEPT !.kind = "panic", !.fault = "dist_code: dist - 5 overflows"]
    ELSE IF dc.kind # "ok"
    THEN [st EXCEPT !.kind = "panic", !.fault = "dist_code(max_dist).unwrap()"]
    ELSE [st EXCEPT !.lfreq[lc.code + 1] = @ + 1,
                    !.dfreq = FreqInc(@, dc.code),
                    !.vlz = Append(@, Copy(max_len, max_dist))]

\* if max_len >= MIN_LEN { the copy } else { the literal b0 }, best the
\* longest match of the chain
TokenMatch(st, b0, best) ==
    IF best.kind # "ok"
    THEN [st EXCEPT !.kind = "panic", !.fault = "compare: index out of bounds"]
    ELSE IF best.max_len >= MIN_LEN
    THEN TokenCopy(st, best.max_len, best.max_dist,
                   length_code(best.max_len), dist_code(best.max_dist))
    ELSE [st EXCEPT !.lfreq[b0 + 1] = @ + 1, !.vlz = Append(@, Literal(b0))]

\* the body of the loop over bytes.windows(MIN_LEN), at position i;
\* st = [kind, fault, head, prev, vlz, lfreq, dfreq]
TokenBody(bytes, len, i, st) ==
    LET hash == trans24(<<bytes[i + 1], bytes[i + 2], bytes[i + 3]>>)
        found == IF hash \in DOMAIN st.head THEN st.head[hash] ELSE len
        prev == [st.prev EXCEPT ![i + 1] = found]
    IN TokenMatch([st EXCEPT !.head = (hash :> i) @@ @, !.prev = prev],
                  bytes[i + 1],
                  ChainWalk(bytes, prev, len, i, found,
                            [kind |-> "ok", max_len |-> 0, max_dist |-> 0]))

RECURSIVE TokenLoop(_, _, _, _, _)
TokenLoop(bytes, len, lo, hi, st) ==
    IF lo > hi \/ st.kind # "ok" THEN st
    ELSE IF lo = hi THEN TokenBody(bytes, len, lo, st)
    ELSE LET mid == (lo + hi) \div 2
             half == TokenLoop(bytes, len, lo, mid, st)
         IN After(half, TokenLoop(bytes, len, mid + 1, hi, half))

\* HLIT, HDIST, HCLEN, the lengths of the code length code in HCLEN_ORDER,
\* then write_code_lengths
WriteTableFields(w, hlit, hdist, eclens, mapped_clens, enc) ==
    WriteAll(<<<<hlit, 5>>, <<hdist, 5>>, <<Len(mapped_clens) - 4, 4>>>>
             \o [i \in 1..Len(mapped_clens) |-> <<mapped_clens[i], 3>>]
             \o CodeLengthsFields(eclens, enc),
             w)

\* let clen = assign_lengths(&freq), and the code made of it
WriteTableClen(w, hlit, hdist, eclens, clen) ==
    IF clen.kind # "ok"
    THEN [kind |-> "panic", fault |-> "assign_lengths: unwrap of None", w |-> w,
          bytes |-> <<>>]
    ELSE WriteTableFields(w, hlit, hdist, eclens, reordered_code_lengths(clen.lengths),
                          gen_huffman_enc(clen.lengths))

\* the frequencies of the code length symbols of both tables
WriteTableFreq(w, hlit, hdist, lit_eclens, dist_eclens) ==
    IF hlit < 0 \/ hdist < 0
    THEN [kind |-> "panic", fault |-> "attempt to subtract with overflow", w |-> w,
          bytes |-> <<>>]
    ELSE IF lit_eclens.illegal \/ dist_eclens.illegal
    THEN [kind |-> "panic", fault |-> "Illegal repeat", w |-> w, bytes |-> <<>>]
    ELSE WriteTableClen(w, hlit, hdist, lit_eclens.v \o dist_eclens.v,
                        assign_lengths(update_freq(
                            update_freq([i \in 1..Len(HCLEN_ORDER) |-> 0], lit_eclens.v),
                            dist_eclens.v)))

\* fn write_code_table(writer, lit_clens, dist_clens) -> Vec<u8>
write_code_table(w, lit_clens, dist_clens) ==
    WriteTableFreq(w, Len(lit_clens) - 257, Len(dist_clens) - 1,
                   encode_code_lengths(lit_clens), encode_code_lengths(dist_clens))

\* what dehuffman pushes for a copy, lc and dc its two codes; a length of 99
\* stands for a panic (an unwrap of Err, an index out of range)
CopyFields(lenc, denc, lc, dc) ==
    IF lc.kind # "ok" \/ dc.kind # "ok" \/ ~(lc.code < Len(lenc))
       \/ ~(dc.code < Len(denc))
    THEN <<<<0, 99>>>>
    ELSE <<lenc[lc.code + 1], <<BitAnd(lc.code, Pow2(lc.bits) - 1), lc.bits>>,
           denc[dc.code + 1],
           <<BitAnd(dc.code, IF dc.bits >= 64 THEN 0 ELSE Pow2(dc.bits) - 1), dc.bits>>>>

\* what dehuffman pushes for one token
TokenFields(t, lenc, denc) ==
    IF t.lit
    THEN IF t.val < Len(lenc) THEN <<lenc[t.val + 1]>> ELSE <<<<0, 99>>>>
    ELSE CopyFields(lenc, denc, length_code(t.len), dist_code(t.dist))

\* fn dehuffman(vlz, lenc, denc) -> Vec<(Bits, u8)>
dehuffman(vlz, lenc, denc) ==
    Flatten([k \in 1..Len(vlz) |-> TokenFields(vlz[k], lenc, denc)], 1, Len(vlz))

\* ------------------------------------------------------- deflate: steps
\* the locals of deflate before its loop.  pos counts the bytes of the
\* source read so far, headers the times the block header was written,
\* output what write_all handed to the sink
DeflateBegin ==
    [pc |-> "read", pos |-> 0, bytes |-> <<>>, vlz |-> <<>>,
     lfreq |-> [i \in 1..MAX_NUM_LIT |-> 0], dfreq |-> NewFreq(MAX_DIST),
     read_len |-> 0, writer |-> NewWriter, headers |-> 0,
     window |-> <<>>, output |-> <<>>, result |-> NoResult]

\* deflate is not running
DeflateIdle == [DeflateBegin EXCEPT !.pc = "idle"]

DeflateFail(s, why) ==
    [s EXCEPT !.pc = "done",
              !.result = [kind |-> "panic", fault |-> why, size |-> 0,
                          crc |-> sum32(NewDigest)]]

\* the end of a turn of the loop: the header bits on the first turn, the
\* tokens of the matcher, then the last MIN_LEN - 1 bytes as literals
DeflateTokens(s, chunk, bytes, toks) ==
    LET len == Len(chunk)
        first == s.read_len = 0
        begin == IF len >= MIN_LEN THEN len - (MIN_LEN - 1) ELSE 0
        tail == SubSeq(chunk, begin + 1, len)
    IN IF toks.kind # "ok" THEN DeflateFail(s, toks.fault)
       ELSE [s EXCEPT !.pos = @ + len,
                      !.bytes = bytes,
                      !.writer = IF first THEN WriteBits(WriteBits(@, 1, 1).w, 2, 2).w
                                 ELSE @,
                      !.headers = IF first THEN @ + 1 ELSE @,
                      !.read_len = @ + len,
                      !.vlz = toks.vlz \o [k \in 1..Len(tail) |-> Literal(tail[k])],
                      !.lfreq = [c \in 1..MAX_NUM_LIT |->
                                    toks.lfreq[c]
                                    + Cardinality({k \in 1..Len(tail) : tail[k] = c - 1})],
                      !.dfreq = toks.dfreq]

\* the matcher over bytes, whose first len bytes are the chunk just read
DeflateMatch(s, chunk, bytes) ==
    DeflateTokens(s, chunk, bytes,
        IF Len(chunk) >= MIN_LEN
        THEN TokenLoop(bytes, Len(chunk), 0, Len(chunk) - MIN_LEN,
                       [kind |-> "ok", fault |-> "", head |-> <<>>,
                        prev |-> [k \in 1..(Len(chunk) - (MIN_LEN - 1)) |-> Len(chunk)],
                        vlz |-> s.vlz, lfreq |-> s.lfreq, dfreq |-> s.dfreq])
        ELSE [kind |-> "ok", fault |-> "", vlz |-> s.vlz, lfreq |-> s.lfreq,
              dfreq |-> s.dfreq])

\* one turn of the loop of deflate in which read() gave chunk, not empty:
\* the chunk lands at the start of bytes, over what an earlier read left
deflate_chunk(s, chunk) ==
    DeflateMatch(s, chunk, chunk \o SubSeq(s.bytes, Len(chunk) + 1, Len(s.bytes)))

\* writer.flush(), write_all of the window, Ok((window.len(), crc))
DeflateDone(s, vlz, bytes, last) ==
    IF last.kind # "ok" THEN DeflateFail(s, last.fault)
    ELSE LET window == bytes \o last.bytes IN
         [s EXCEPT !.pc = "done", !.vlz = vlz, !.writer = last.w,
                   !.window = window, !.output = window,
                   !.result = [kind |-> "ok", fault |-> "", size |-> Len(window),
                               crc |-> sum32(DigestWrite(NewDigest, window))]]

\* for (b, s) in vhuff { window.append(writer.write_bits(b, s)) }: body
DeflateFlush(s, vlz, head, body) ==
    IF body.kind # "ok" THEN DeflateFail(s, body.fault)
    ELSE DeflateDone(s, vlz, head \o body.bytes, flush(body.w))

\* table is what write_code_table gave, vhuff what dehuffman gave
DeflateBody(s, vlz, table, vhuff) ==
    IF table.kind # "ok" THEN DeflateFail(s, table.fault)
    ELSE DeflateFlush(s, vlz, table.bytes, WriteAll(vhuff, table.w))

\* the code table and the codes of both alphabets
DeflateTable(s, vlz, lit_clens, dist_clens) ==
    DeflateBody(s, vlz, write_code_table(s.writer, lit_clens, dist_clens),
                dehuffman(vlz, gen_huffman_enc(lit_clens), gen_huffman_enc(dist_clens)))

\* lit_clens and dist0 are what assign_lengths gave for the two alphabets:
\* if dist_clens.is_empty() { dist_clens.push(0) }
DeflateLengths(s, vlz, lit_clens, dist0) ==
    IF lit_clens.kind # "ok" \/ dist0.kind # "ok"
    THEN DeflateFail(s, "assign_lengths: unwrap of None")
    ELSE DeflateTable(s, vlz, lit_clens.lengths,
                      IF Len(dist0.lengths) = 0 THEN <<0>> ELSE dist0.lengths)

\* lfreq after the pops and lfreq[END_OF_BLOCK] += 1
ClosedFreq(lfreq) == [PopZeros(lfreq, MIN_NUM_LIT) EXCEPT ![END_OF_BLOCK + 1] = @ + 1]

\* (DeflateFinishNoEob: the block closed without END_OF_BLOCK, neither
\* pushed nor counted)
DeflateFinishNoEob(s) ==
    IF s.read_len = 0
    THEN [s EXCEPT !.pc = "done",
                   !.result = [kind |-> "ok", fault |-> "", size |-> 0,
                               crc |-> sum32(NewDigest)]]
    ELSE DeflateLengths([s EXCEPT !.lfreq = PopZeros(s.lfreq, MIN_NUM_LIT)],
                        s.vlz,
                        assign_lengths(PopZeros(s.lfreq, MIN_NUM_LIT)),
                        assign_lengths(FreqPopped(s.dfreq)))

\* the turn in which read() gave 0 bytes: return Ok((0, 0)) when nothing was
\* read (the crc of no bytes), else leave the loop, push END_OF_BLOCK, trim
\* the two frequency vectors, write the block and return
deflate_finish(s) ==
    IF s.read_len = 0
    THEN [s EXCEPT !.pc = "done",
                   !.result = [kind |-> "ok", fault |-> "", size |-> 0,
                               crc |-> sum32(NewDigest)]]
    ELSE DeflateLengths([s EXCEPT !.lfreq = ClosedFreq(s.lfreq)],
                        Append(s.vlz, Literal(END_OF_BLOCK)),
                        assign_lengths(ClosedFreq(s.lfreq)),
                        assign_lengths(FreqPopped(s.dfreq)))

\* ----------------------------------------------------------- the inputs
\* longest stream of arbitrary bytes handed to inflate
MaxRawLen == 3
\* longest text of arbitrary bytes handed to deflate
MaxDataLen == 4
\* copies of MAX_LEN bytes that fill the window of LongStream up to MAX_DIST
FillCopies == 127

\* first bytes of a stream that reach every block type, final or not, and
\* following bytes that decode to literals, copies and end-of-block codes
RawBytes == {0, 1, 2, 3, 4, 5, 7, 12, 75}
DataBytes == {97, 98}

SeqsUpTo(S, n) == UNION {[1..k -> S] : k \in 0..n}
Prefixes(s) == {SubSeq(s, 1, k) : k \in 0..Len(s)}

\* the n low bits of v, lowest first: the order in which BitReader hands
\* the bits of a byte out
LsbBits(v, n) == [k \in 1..n |-> (v \div Pow2(k - 1)) % 2]

\* bits packed into bytes, lowest bit first, the last byte padded with zeros
Pack(bits) ==
    LET bit(i) == IF i <= Len(bits) THEN bits[i] ELSE 0 IN
    [k \in 1..((Len(bits) + 7) \div 8) |->
        bit(8 * k - 7) + 2 * bit(8 * k - 6) + 4 * bit(8 * k - 5) + 8 * bit(8 * k - 4)
        + 16 * bit(8 * k - 3) + 32 * bit(8 * k - 2) + 64 * bit(8 * k - 1)
        + 128 * bit(8 * k)]

\* a block header, and the tokens of a block with the fixed code, as
\* inflate reads them: the literal/length code of FIXED_LITERAL_ENC, the
\* extra bits of the length, the 5-bit distance code, its extra bits
HeaderBits(bfinal, btype) == <<bfinal>> \o LsbBits(btype, 2)
CodeBits(c) == LsbBits(c[1], c[2])
FixedBits(sym) == CodeBits(FIXED_LITERAL_ENC[sym + 1])
FixedCopyBits(sym, extra, nextra, dcode, dextra, ndextra) ==
    FixedBits(sym) \o LsbBits(extra, nextra) \o LsbBits(reverse(dcode, 5), 5)
    \o LsbBits(dextra, ndextra)

\* "a" in one final block with the fixed code
FixedStream == Pack(HeaderBits(1, 1) \o FixedBits(97) \o FixedBits(END_OF_BLOCK))
\* "aaaa": a literal and a copy of length 3 at distance 1
OverlapStream ==
    Pack(HeaderBits(1, 1) \o FixedBits(97) \o FixedCopyBits(257, 0, 0, 0, 0, 0)
         \o FixedBits(END_OF_BLOCK))
\* a copy of length 3 at distance 2 after one literal only
BadDistanceStream ==
    Pack(HeaderBits(1, 1) \o FixedBits(97) \o FixedCopyBits(257, 0, 0, 1, 0, 0)
         \o FixedBits(END_OF_BLOCK))
\* two blocks: "a" in a block with BFINAL = 0, "b" in a block with BFINAL = 1
TwoBlockStream ==
    Pack(HeaderBits(0, 1) \o FixedBits(97) \o FixedBits(END_OF_BLOCK)
         \o HeaderBits(1, 1) \o FixedBits(98) \o FixedBits(END_OF_BLOCK))
\* a copy of length 3 whose distance symbol 29 takes 13 extra bits: cut short
\* after three bytes, read_bits(13) fails with 9 bits pulled
FarDistanceStream == Pack(HeaderBits(1, 1) \o FixedCopyBits(257, 0, 0, 29, 0, 13))
\* a final stored block: LEN = 1, NLEN = ~LEN, the byte "a"
StoredStream == <<1, 1, 0, 254, 255, 97>>
\* "ab", then copies of 258 bytes at distance 2 until the window holds
\* MAX_DIST bytes, then a literal, two more copies and a literal
LongCopy == FixedCopyBits(284, 31, 5, 1, 0, 0)
LongStream ==
    Pack(HeaderBits(1, 1) \o FixedBits(97) \o FixedBits(98)
         \o Flatten([k \in 1..FillCopies |-> LongCopy], 1, FillCopies)
         \o FixedBits(97) \o LongCopy \o LongCopy \o FixedBits(98)
         \o FixedBits(END_OF_BLOCK))

\* "ab" and the FillCopies copies of LongStream, MAX_DIST bytes in all, then
\* a copy of length 3 at distance MAX_DIST: distance symbol 29, base 24577,
\* with its 13 extra bits all set
MaxDistanceStream ==
    Pack(HeaderBits(1, 1) \o FixedBits(97) \o FixedBits(98)
         \o Flatten([k \in 1..FillCopies |-> LongCopy], 1, FillCopies)
         \o FixedCopyBits(257, 0, 0, 29, 8191, 13)
         \o FixedBits(END_OF_BLOCK))

\* the streams inflate is run on with every prefix of them
Truncated ==
    SeqsUpTo(RawBytes, MaxRawLen)
    \cup {FixedStream, OverlapStream, BadDistanceStream, TwoBlockStream,
          FarDistanceStream, StoredStream}
\* the texts deflate is run on
Texts ==
    SeqsUpTo(DataBytes, MaxDataLen)
    \cup {<<97, 98, 99, 100, 101, 97, 98, 99>>, <<0, 0, 0, 0>>}

\* ------------------------------------------------------ the state machine
\* inflate is not running
InflateIdle == [InflateBegin(<<>>) EXCEPT !.pc = "idle"]
\* no unit test is running
UnitIdle == [test |-> "none", pc |-> "idle"]

\* Either inflate is called on a stream, whole or cut short, or deflate is
\* called on a text.
Init ==
    /\ overflow_checks \in BOOLEAN
    /\ unit = UnitIdle
    /\ \/ /\ \/ /\ full \in Truncated
                /\ compressed \in Prefixes(full)
             \/ /\ full \in {LongStream, MaxDistanceStream}
                /\ compressed = full
          /\ uncompressed = <<>>
          /\ deflating = DeflateIdle
          /\ inflating = InflateBegin(compressed)
       \/ /\ uncompressed \in Texts
          /\ deflating = DeflateBegin
          /\ compressed = <<>>
          /\ full = <<>>
          /\ inflating = InflateIdle

\* deflate: input.read(&mut bytes) gives the next n bytes of the text, n > 0,
\* and the loop body runs on them
DeflateRead ==
    /\ deflating.pc = "read"
    /\ \E n \in 1..Min(Len(uncompressed) - deflating.pos, BUF_SIZE) :
          deflating' = deflate_chunk(deflating,
                                     SubSeq(uncompressed, deflating.pos + 1,
                                            deflating.pos + n))
    /\ UNCHANGED <<unit, overflow_checks, uncompressed, compressed, full, inflating>>

\* deflate: input.read gives 0 at the end of the text, and deflate returns
DeflateEof ==
    /\ deflating.pc = "read"
    /\ deflating.pos = Len(uncompressed)
    /\ deflating' = deflate_finish(deflating)
    /\ UNCHANGED <<unit, overflow_checks, uncompressed, compressed, full, inflating>>

\* test::end_to_end_test: what deflate wrote, when it is not empty, is
\* handed to inflate; so is any prefix of it, the stream cut short
Handoff ==
    /\ deflating.pc = "done"
    /\ deflating.result.kind = "ok"
    /\ inflating.pc = "idle"
    /\ deflating.output # <<>>
    /\ full' = deflating.output
    /\ compressed' \in Prefixes(full')
    /\ inflating' = InflateBegin(compressed')
    /\ UNCHANGED <<unit, overflow_checks, uncompressed, deflating>>

\* inflate, up to the head of its loop
InflateHeader ==
    /\ inflating.pc = "begin"
    /\ inflating' = inflate_header(compressed, inflating)
    /\ UNCHANGED <<unit, overflow_checks, uncompressed, deflating, compressed, full>>

\* a turn of the loop of inflate that decodes a literal
InflateLiteral ==
    /\ inflating.pc = "loop"
    /\ inflating' = inflate_turn(compressed, inflating)
    /\ inflating'.pc = "loop"
    /\ inflating'.tok.kind = "literal"
    /\ UNCHANGED <<unit, overflow_checks, uncompressed, deflating, compressed, full>>

\* a turn that decodes a length and a distance and copies
InflateCopy ==
    /\ inflating.pc = "loop"
    /\ inflating' = inflate_turn(compressed, inflating)
    /\ inflating'.pc = "loop"
    /\ inflating'.tok.kind = "copy"
    /\ UNCHANGED <<unit, overflow_checks, uncompressed, deflating, compressed, full>>

\* the turn that decodes END_OF_BLOCK: the window is flushed and inflate
\* returns Ok
InflateEndOfBlock ==
    /\ inflating.pc = "loop"
    /\ inflating' = inflate_turn(compressed, inflating)
    /\ inflating'.result.kind = "ok"
    /\ UNCHANGED <<unit, overflow_checks, uncompressed, deflating, compressed, full>>

\* a turn that returns Err or panics
InflateAbort ==
    /\ inflating.pc = "loop"
    /\ inflating' = inflate_turn(compressed, inflating)
    /\ inflating'.result.kind \in {"err", "panic"}
    /\ UNCHANGED <<unit, overflow_checks, uncompressed, deflating, compressed, full>>

Next ==
    \/ DeflateRead
    \/ DeflateEof
    \/ Handoff
    \/ InflateHeader
    \/ InflateLiteral
    \/ InflateCopy
    \/ InflateEndOfBlock
    \/ InflateAbort

Spec == Init /\ [][Next]_vars

\* --------------------------------------------- the functions on their own
\* The tests of the crate call its functions one by one.  Under UnitSpec the
\* codec is idle and unit holds the locals of one such test:
\*   "code"   lengths -> gen_huffman_enc, gen_huffman_dec -> read_code
\*   "fixed"  the same with the tables of fixed_literal_enc, fixed_literal_dec
\*   "basics" fields -> BitWriter::write_bits, flush -> BitReader::read_bits
\*   "assign" a histogram -> assign_lengths
\*   "codelen" v -> encode_code_lengths -> the expansion, and
\*            -> write_code_lengths -> read_code_lengths
\*   "table"  an argument -> length_code, dist_code or read_length
\*   "copy"   a Copy token -> dehuffman -> write_bits -> read_length, read_distance

\* most symbols in a code-length array handed to gen_huffman_enc / _dec
MaxSymbols == 4
\* the code lengths tried
LengthValues == {0, 1, 2, 3, 15}

RECURSIVE SumOf(_, _, _)
SumOf(v, lo, hi) == IF lo > hi THEN 0 ELSE v[lo] + SumOf(v, lo + 1, hi)

\* Kraft's sum of the nonzero lengths of v, times 2^MAX_NUM_BITS
Kraft(v) ==
    SumOf([i \in 1..Len(v) |-> IF v[i] = 0 THEN 0 ELSE Pow2(MAX_NUM_BITS - v[i])],
          1, Len(v))

\* the lengths of HuffmanEnc::fixed_literal_enc
FixedLengths ==
    [k \in 1..MAX_NUM_LIT |->
        IF k - 1 >= 256 /\ k - 1 < 280 THEN 7
        ELSE IF k - 1 >= 144 /\ k - 1 < 256 THEN 9
        ELSE 8]
\* the lengths of test::dynamic_huffman_codelen
CodelenLengths == <<2, 6, 6, 4, 5, 2, 2, 0, 0, 0, 0, 0, 0, 0, 0, 0, 0, 4, 4, 0>>

\* the code-length arrays tried: not empty, Kraft's inequality satisfied
CodeLengthArrays ==
    {v \in SeqsUpTo(LengthValues, MaxSymbols) : Len(v) > 0 /\ Kraft(v) <= Pow2(MAX_NUM_BITS)}
    \cup {FixedLengths, CodelenLengths}

NoCode == [kind |-> "none", fault |-> "", val |-> 0, rd |-> NewReader]

\* a test of the Huffman tables, before the tables are made
CodeTest(lengths) ==
    [test |-> "code", pc |-> "lengths", lengths |-> lengths, enc |-> <<>>,
     dec |-> NewHuffmanDec, sym |-> 0, stream |-> <<>>, code |-> NoCode]
\* test::fixed_huffman_literal: the tables are the hand-written ones
FixedTest ==
    [CodeTest(FixedLengths) EXCEPT !.test = "fixed", !.pc = "tables",
                                   !.enc = FIXED_LITERAL_ENC, !.dec = FIXED_LITERAL_DEC]

\* let enc = gen_huffman_enc(&code_lens); let dec = gen_huffman_dec(&code_lens, n)
GenHuffmanTables(u, d) ==
    IF d.kind # "ok" THEN [u EXCEPT !.pc = "done", !.code = [NoCode EXCEPT !.kind = d.kind,
                                                                            !.fault = d.fault]]
    ELSE [u EXCEPT !.pc = "tables", !.enc = gen_huffman_enc(u.lengths), !.dec = d.dec]

GenHuffman ==
    /\ unit.test = "code"
    /\ unit.pc = "lengths"
    /\ unit' = GenHuffmanTables(unit, gen_huffman_dec(unit.lengths, Len(unit.lengths)))
    /\ UNCHANGED <<overflow_checks, uncompressed, deflating, compressed, full, inflating>>

\* the code of a symbol that has one is written, bits of any value after
\* it, and read_code reads from the bytes
ReadSymbolCode ==
    /\ unit.test \in {"code", "fixed"}
    /\ unit.pc = "tables"
    /\ \E s \in 0..(Len(unit.lengths) - 1), t \in {0, 1} :
          /\ unit.lengths[s + 1] # 0
          /\ LET stream == Pack(CodeBits(unit.enc[s + 1])
                                \o [k \in 1..(16 - unit.lengths[s + 1]) |-> t])
             IN unit' = [unit EXCEPT !.pc = "symbol", !.sym = s, !.stream = stream,
                                     !.code = read_code(stream, NewReader, unit.dec)]
    /\ UNCHANGED <<overflow_checks, uncompressed, deflating, compressed, full, inflating>>

\* test::single_symbol: one bit is written, the writer flushed, and read_code
\* reads from the byte
ReadOneBit ==
    /\ unit.test = "code"
    /\ unit.pc = "tables"
    /\ \E bit \in {0, 1} :
          LET stream == <<bit>>
          IN unit' = [unit EXCEPT !.pc = "bit", !.sym = bit, !.stream = stream,
                                  !.code = read_code(stream, NewReader, unit.dec)]
    /\ UNCHANGED <<overflow_checks, uncompressed, deflating, compressed, full, inflating>>

\* most fields written and read back in one test of the bit stream
MaxFields == 2
\* the widths tried, the values tried for a width, and the fields (b, n, order)
FieldWidths == {0, 1, 7, 15, 16}
FieldValues(n) == {0, Pow2(n) - 1, 23130 % Pow2(n)}
Fields == {<<b, n, order>> : b \in UNION {FieldValues(n) : n \in FieldWidths},
                             n \in FieldWidths, order \in BOOLEAN}
\* the fields of test::basics: 0x5A5A in 15 bits MSB first, 0x3AA5 in 15 bits
BasicsFields == << <<23130, 15, FALSE>>, <<15013, 15, TRUE>> >>
FieldSeqs ==
    {fs \in SeqsUpTo(Fields, MaxFields) : \A k \in 1..Len(fs) : fs[k][1] < Pow2(fs[k][2])}
    \cup {BasicsFields}

\* test::basics before its first write: written counts the fields written,
\* bytes is the file, values are the results of read_bits
BasicsTest(fields) ==
    [test |-> "basics", pc |-> "write", fields |-> fields, written |-> 0,
     writer |-> NewWriter, bytes |-> <<>>, reader |-> NewReader, values |-> <<>>,
     fault |-> ""]

\* writer.write_bits(b, n, order).unwrap() returned r
BasicsWritten(u, r) ==
    IF r.kind # "ok" THEN [u EXCEPT !.pc = "done", !.fault = r.fault]
    ELSE [u EXCEPT !.writer = r.w, !.bytes = @ \o r.bytes, !.written = @ + 1]

\* writer.flush().unwrap() returned r, and the file is opened for reading
BasicsFlushed(u, r) ==
    IF r.kind # "ok" THEN [u EXCEPT !.pc = "done", !.fault = r.fault]
    ELSE [u EXCEPT !.writer = r.w, !.bytes = @ \o r.bytes, !.pc = "read"]

\* reader.read_bits(n, order).unwrap() returned r
BasicsReadBack(u, r) ==
    IF r.kind # "ok" THEN [u EXCEPT !.pc = "done", !.fault = r.fault, !.reader = r.rd]
    ELSE [u EXCEPT !.reader = r.rd, !.values = Append(@, r.val)]

\* test::basics: the next field is written
BasicsWrite ==
    /\ unit.test = "basics"
    /\ unit.pc = "write"
    /\ unit.written < Len(unit.fields)
    /\ unit' = BasicsWritten(unit, write_bits(unit.writer,
                                              unit.fields[unit.written + 1][1],
                                              unit.fields[unit.written + 1][2],
                                              unit.fields[unit.written + 1][3]))
    /\ UNCHANGED <<overflow_checks, uncompressed, deflating, compressed, full, inflating>>

\* test::basics: all fields written, the writer is flushed
BasicsFlush ==
    /\ unit.test = "basics"
    /\ unit.pc = "write"
    /\ unit.written = Len(unit.fields)
    /\ unit' = BasicsFlushed(unit, flush(unit.writer))
    /\ UNCHANGED <<overflow_checks, uncompressed, deflating, compressed, full, inflating>>

\* test::basics: the next field is read back from the file
BasicsRead ==
    /\ unit.test = "basics"
    /\ unit.pc = "read"
    /\ Len(unit.values) < Len(unit.fields)
    /\ unit' = BasicsReadBack(unit, read_bits(unit.bytes, unit.reader,
                                              unit.fields[Len(unit.values) + 1][2],
                                              unit.fields[Len(unit.values) + 1][3]))
    /\ UNCHANGED <<overflow_checks, uncompressed, deflating, compressed, full, inflating>>

\* "assign": a histogram -> assign_lengths, as at the end of deflate and in
\* test::assign_lengths_test, test::assign_lengths_re

\* most symbols in a histogram tried, and the counts tried
MaxFreqs == 4
FreqValues == {0, 1, 2, 3, 5}
\* test::assign_lengths_test with 'a'..'f' moved to 0..5, and test::assign_lengths_re
CormenFreq == <<45, 13, 12, 16, 9, 5>>
SingleFreq == <<0, 0, 0, 0, 0, 2>>
Histograms ==
    {v \in SeqsUpTo(FreqValues, MaxFreqs) : \E i \in 1..Len(v) : v[i] > 0}
    \cup {CormenFreq, SingleFreq}

\* a text of 255 bytes in which no three bytes come twice, so that every
\* token is a literal: 108 byte values, 93 comes 32 times, 94 16 times, five
\* values 8 times, twelve 4 times, thirty twice and fifty-nine once
SkewText ==
   <<
      0, 54, 25, 21, 60, 93, 82, 80, 85, 105, 2, 9, 65, 5, 78, 39, 21, 58, 94, 104,
      24, 14, 6, 46, 42, 93, 93, 92, 56, 11, 8, 8, 84, 8, 57, 20, 21, 94, 30, 23, 5,
      41, 85, 5, 93, 39, 61, 29, 38, 11, 90, 50, 2, 93, 60, 63, 77, 93, 94, 8, 98,
      7, 67, 93, 104, 88, 93, 51, 10, 17, 79, 93, 34, 24, 11, 93, 15, 89, 13, 93,
      96, 31, 103, 31, 51, 1, 54, 106, 21, 64, 86, 30, 66, 93, 106, 93, 73, 83, 39,
      39, 31, 94, 93, 25, 43, 90, 5, 95, 35, 31, 53, 32, 97, 93, 55, 21, 52, 18, 48,
      51, 93, 16, 95, 14, 94, 89, 74, 13, 27, 31, 90, 19, 4, 8, 6, 0, 31, 93, 107,
      93, 94, 33, 39, 68, 5, 10, 45, 93, 31, 2, 94, 44, 5, 36, 8, 76, 55, 94, 10,
      30, 93, 84, 94, 21, 8, 69, 91, 102, 32, 13, 103, 30, 93, 35, 94, 90, 44, 72,
      64, 37, 70, 39, 59, 46, 93, 104, 49, 87, 99, 21, 57, 93, 4, 8, 39, 11, 51, 71,
      93, 94, 47, 93, 93, 94, 93, 74, 94, 28, 3, 93, 31, 5, 107, 93, 13, 103, 93,
      87, 103, 93, 40, 62, 94, 81, 98, 12, 94, 82, 42, 104, 65, 101, 65, 100, 93,
      19, 21, 66, 26, 54, 94, 96, 2, 75, 5, 71, 79, 54, 74, 97, 39, 10, 65, 74, 22
   >>
\* the texts whose histograms are tried
HistogramTexts == {SkewText, <<97, 98>>, <<97, 98, 99, 100, 101, 97, 98, 99>>}

\* lfreq after the pops and lfreq[END_OF_BLOCK] += 1, s the locals of deflate
LiteralFreq(s) == ClosedFreq(s.lfreq)
\* dfreq after the pops
DistanceFreq(s) == FreqPopped(s.dfreq)
\* freq of write_code_table, lit and dist0 what assign_lengths gave
CodelenFreqOf(lit, dist0) ==
    update_freq(update_freq([i \in 1..Len(HCLEN_ORDER) |-> 0],
                            encode_code_lengths(lit.lengths).v),
                encode_code_lengths(IF Len(dist0.lengths) = 0 THEN <<0>>
                                    ELSE dist0.lengths).v)
CodelenFreq(s) ==
    CodelenFreqOf(assign_lengths(LiteralFreq(s)), assign_lengths(DistanceFreq(s)))

\* the three histograms deflate hands to assign_lengths for a text read in
\* one chunk; none when the matcher has failed on it
TextHistograms(s) ==
    IF s.pc = "done" THEN {}
    ELSE {<<"literal", LiteralFreq(s)>>, <<"distance", DistanceFreq(s)>>,
          <<"codelen", CodelenFreq(s)>>}

\* the call of assign_lengths on freq, before it is made
AssignTest(alphabet, freq) ==
    [test |-> "assign", pc |-> "freq", alphabet |-> alphabet, freq |-> freq,
     kind |-> "none", lengths |-> <<>>]

\* let l = assign_lengths(&v) returned r
AssignReturned(u, r) == [u EXCEPT !.pc = "done", !.kind = r.kind, !.lengths = r.lengths]

AssignLengths ==
    /\ unit.test = "assign"
    /\ unit.pc = "freq"
    /\ unit' = AssignReturned(unit, assign_lengths(unit.freq))
    /\ UNCHANGED <<overflow_checks, uncompressed, deflating, compressed, full, inflating>>

\* "codelen": test::codelen_alphabet and test::codelen_huffman, which share
\* v and encode_code_lengths(&v)

\* most lengths in an array of arbitrary code lengths
MaxLens == 3
\* the code lengths tried
LenValues == {0, 5, 15}
\* the runs tried: a value, repeated as often as the arms of
\* encode_code_lengths tell apart and beyond one Repeat, between two ends
RunValues == {0, 5}
RunLengths == {3, 4, 6, 7, 8, 10, 11, 12, 138, 139, 140, 277}
RunEnds == {<<>>, <<0>>, <<5>>, <<7>>}
LengthVectors ==
    SeqsUpTo(LenValues, MaxLens)
    \cup {pre \o [k \in 1..r |-> c] \o post :
             pre \in RunEnds, r \in RunLengths, c \in RunValues, post \in RunEnds}

\* the locals of the two tests once v is filled
CodelenTest(v) ==
    [test |-> "codelen", pc |-> "v", v |-> v, eclens |-> <<>>, d |-> <<>>,
     clens |-> <<>>, encoded |-> <<>>, hlit_len |-> <<>>, fault |-> ""]

\* let eclens = encode_code_lengths(&v) returned e
CodelenEncoded(u, e) ==
    IF e.illegal THEN [u EXCEPT !.pc = "done", !.fault = "Illegal repeat"]
    ELSE [u EXCEPT !.pc = "eclens", !.eclens = e.v]

EncodeLengths ==
    /\ unit.test = "codelen"
    /\ unit.pc = "v"
    /\ unit' = CodelenEncoded(unit, encode_code_lengths(unit.v))
    /\ UNCHANGED <<overflow_checks, uncompressed, deflating, compressed, full, inflating>>

\* the match of test::codelen_alphabet on one CodeLength; st = [kind, d]
ExpandOne(st, cl) ==
    IF cl.single THEN [st EXCEPT !.d = Append(@, cl.code)]
    ELSE IF cl.code = 16
    THEN IF Len(st.d) = 0 THEN [st EXCEPT !.kind = "panic"]
         ELSE [st EXCEPT !.d = @ \o [k \in 1..(cl.repeat + 3) |-> st.d[Len(st.d)]]]
    ELSE [st EXCEPT !.d = @ \o [k \in 1..(cl.repeat + (IF cl.code = 17 THEN 3 ELSE 11))
                                     |-> 0]]

\* for cl in clens { match cl { .. } }, lo .. hi of clens
RECURSIVE ExpandLoop(_, _, _, _)
ExpandLoop(clens, lo, hi, st) ==
    IF lo > hi \/ st.kind # "ok" THEN st
    ELSE IF lo = hi THEN ExpandOne(st, clens[lo])
    ELSE LET mid == (lo + hi) \div 2
             half == ExpandLoop(clens, lo, mid, st)
         IN After(half, ExpandLoop(clens, mid + 1, hi, half))

\* d after the loop of test::codelen_alphabet
CodelenExpanded(u, st) ==
    IF st.kind # "ok" THEN [u EXCEPT !.pc = "done", !.fault = "d.pop().unwrap()"]
    ELSE [u EXCEPT !.pc = "expanded", !.d = st.d]

\* test::codelen_alphabet from clens on
ExpandLengths ==
    /\ unit.test = "codelen"
    /\ unit.pc = "eclens"
    /\ unit' = CodelenExpanded(unit, ExpandLoop(unit.eclens, 1, Len(unit.eclens),
                                                [kind |-> "ok", d |-> <<>>]))
    /\ UNCHANGED <<overflow_checks, uncompressed, deflating, compressed, full, inflating>>

\* encoded.extend(writer.flush()), body what the writes before it gave
CodelenFlushed(u, clens, body, last) ==
    IF last.kind # "ok" THEN [u EXCEPT !.pc = "done", !.fault = last.fault]
    ELSE [u EXCEPT !.pc = "encoded", !.clens = clens, !.encoded = body \o last.bytes]

\* the writes of test::codelen_huffman returned r
CodelenWritten(u, clens, r) ==
    IF r.kind # "ok" THEN [u EXCEPT !.pc = "done", !.clens = clens, !.fault = r.fault]
    ELSE CodelenFlushed(u, clens, r.bytes, flush(r.w))

\* hclen - 4 in 4 bits, mapped_clens in 3 bits each, write_code_lengths
CodelenFields(u, clens, mapped_clens, enc) ==
    CodelenWritten(u, clens,
        WriteAll(<<<<Len(mapped_clens) - 4, 4>>>>
                 \o [i \in 1..Len(mapped_clens) |-> <<mapped_clens[i], 3>>]
                 \o CodeLengthsFields(u.eclens, enc),
                 NewWriter))

\* let clens = assign_lengths(&freq) returned c
CodelenAssigned(u, c) ==
    IF c.kind # "ok"
    THEN [u EXCEPT !.pc = "done", !.fault = "assign_lengths: unwrap of None"]
    ELSE CodelenFields(u, c.lengths, reordered_code_lengths(c.lengths),
                       gen_huffman_enc(c.lengths))

\* test::codelen_huffman from freq to encoded
WriteLengths ==
    /\ unit.test = "codelen"
    /\ unit.pc = "eclens"
    /\ unit' = CodelenAssigned(unit,
                   assign_lengths(update_freq([i \in 1..Len(HCLEN_ORDER) |-> 0],
                                              unit.eclens)))
    /\ UNCHANGED <<overflow_checks, uncompressed, deflating, compressed, full, inflating>>

\* read_code_lengths(&mut reader, &clen_dec, len).unwrap() returned r
CodelenReadBack(u, r) ==
    IF r.kind # "ok" THEN [u EXCEPT !.pc = "done", !.fault = r.fault]
    ELSE [u EXCEPT !.pc = "read", !.hlit_len = r.lens]

\* let clen_dec = gen_huffman_dec(&hclen_len, max_hclen) returned c
CodelenDec(u, rd, c) ==
    IF c.kind # "ok" THEN [u EXCEPT !.pc = "done", !.fault = c.fault]
    ELSE CodelenReadBack(u, read_code_lengths(u.encoded, rd, c.dec, Len(u.v)))

\* the loop over hclen_len returned h
CodelenHclenLen(u, h) ==
    IF h.kind # "ok" THEN [u EXCEPT !.pc = "done", !.fault = h.fault]
    ELSE CodelenDec(u, h.rd, gen_huffman_dec(h.lens, Len(HCLEN_ORDER)))

\* let hclen = reader.read_bits(4, true).unwrap() as usize + 4 returned r
CodelenHclen(u, r) ==
    IF r.kind # "ok" THEN [u EXCEPT !.pc = "done", !.fault = r.fault]
    ELSE CodelenHclenLen(u, ReadHclen(u.encoded, 0, r.val + 4,
                                      [kind |-> "ok", fault |-> "", rd |-> r.rd,
                                       lens |-> [k \in 1..Len(HCLEN_ORDER) |-> 0]]))

\* test::codelen_huffman from the reader on
ReadLengths ==
    /\ unit.test = "codelen"
    /\ unit.pc = "encoded"
    /\ unit' = CodelenHclen(unit, read_bits(unit.encoded, NewReader, 4, TRUE))
    /\ UNCHANGED <<overflow_checks, uncompressed, deflating, compressed, full, inflating>>

\* "table": one call of length_code, dist_code or read_length on its own

\* the match lengths and the distances tried
MatchLengths == MIN_LEN..MAX_LEN
Distances ==
    1..40 \cup UNION {{Pow2(k) - 1, Pow2(k), Pow2(k) + 1, 3 * Pow2(k - 1),
                       3 * Pow2(k - 1) + 1} : k \in 6..14}
          \cup {MAX_DIST - 1, MAX_DIST}

\* the call fn(arg), before it is made
TableTest(fn, arg) ==
    [test |-> "table", pc |-> "arg", fn |-> fn, arg |-> arg,
     res |-> [kind |-> "none"]]

\* let lc = length_code(l)
LengthCode ==
    /\ unit.test = "table"
    /\ unit.pc = "arg"
    /\ unit.fn = "length_code"
    /\ unit' = [unit EXCEPT !.pc = "done", !.res = length_code(unit.arg)]
    /\ UNCHANGED <<overflow_checks, uncompressed, deflating, compressed, full, inflating>>

\* let dc = dist_code(d)
DistCode ==
    /\ unit.test = "table"
    /\ unit.pc = "arg"
    /\ unit.fn = "dist_code"
    /\ unit' = [unit EXCEPT !.pc = "done", !.res = dist_code(unit.arg)]
    /\ UNCHANGED <<overflow_checks, uncompressed, deflating, compressed, full, inflating>>

\* read_length(lit, &mut reader) on a reader over the byte arg[2], whose low
\* bits are the extra bits, and a zero byte
ReadLength ==
    /\ unit.test = "table"
    /\ unit.pc = "arg"
    /\ unit.fn = "read_length"
    /\ unit' = [unit EXCEPT !.pc = "done",
                            !.res = read_length(<<unit.arg[2], 0>>, NewReader, unit.arg[1])]
    /\ UNCHANGED <<overflow_checks, uncompressed, deflating, compressed, full, inflating>>

\* "copy": one Copy token through dehuffman and the writer, then read back
\* by the steps of the copy arm of inflate

\* the lengths and distances of the Copy tokens tried
CopyLengths == {3, 4, 10, 11, 12, 19, 20, 258}
CopyDistances == {1, 5, 7, 8, 9, 32768}
\* the lengths of a distance code with 30 symbols of 5 bits
DistLengths == [k \in 1..NUM_DIST_CODE |-> 5]

\* the token, before it is encoded
CopyTest(len, dist) ==
    [test |-> "copy", pc |-> "token", len |-> len, dist |-> dist, fields |-> <<>>,
     bytes |-> <<>>, res |-> [kind |-> "none"]]

\* the fields of dehuffman written, w what the writes returned, last the flush
CopyWritten(u, fields, w, last) ==
    IF w.kind # "ok" THEN [u EXCEPT !.pc = "done", !.fields = fields,
                                    !.res = [kind |-> w.kind, fault |-> w.fault]]
    ELSE [u EXCEPT !.pc = "bytes", !.fields = fields, !.bytes = w.bytes \o last.bytes]

\* for (b, s) in vhuff { writer.write_bits(b, s) }, then flush
CopyEmitted(u, fields, w) == CopyWritten(u, fields, w, flush(w.w))

\* dehuffman(&[Copy { len, dist }], &lenc, &denc) and the writes of its fields
EmitCopy ==
    /\ unit.test = "copy"
    /\ unit.pc = "token"
    /\ LET fields == dehuffman(<<Copy(unit.len, unit.dist)>>, FIXED_LITERAL_ENC,
                               gen_huffman_enc(DistLengths))
       IN unit' = CopyEmitted(unit, fields, WriteAll(fields, NewWriter))
    /\ UNCHANGED <<overflow_checks, uncompressed, deflating, compressed, full, inflating>>

\* the copy arm of inflate up to dist: ds is what read_distance returned
CopyReadDistance(len, ds) ==
    IF ds.kind # "ok" THEN [kind |-> ds.kind, fault |-> ds.fault]
    ELSE [kind |-> "ok", fault |-> "", len |-> len, dist |-> ds.val]

\* d is the read of dcode
CopyReadCode(inp, len, d) ==
    IF d.kind # "ok" THEN [kind |-> d.kind, fault |-> d.fault]
    ELSE IF ~(d.val < NUM_DIST_CODE)
    THEN [kind |-> "panic", fault |-> "assert dcode < NUM_DIST_CODE"]
    ELSE CopyReadDistance(len, read_distance(inp, d.rd, d.val))

\* l is what read_length returned
CopyReadLength(inp, dec, l) ==
    IF l.kind # "ok" THEN [kind |-> l.kind, fault |-> l.fault]
    ELSE IF ~(l.val <= MAX_LEN)
    THEN [kind |-> "panic", fault |-> "assert len <= MAX_LEN"]
    ELSE CopyReadCode(inp, l.val, read_code(inp, l.rd, dec))

\* c is the read of lit
CopyReadSymbol(inp, dec, c) ==
    IF c.kind # "ok" THEN [kind |-> c.kind, fault |-> c.fault]
    ELSE IF c.val <= END_OF_BLOCK \/ c.val > 285
    THEN [kind |-> "err", fault |-> "not a length symbol"]
    ELSE CopyReadLength(inp, dec, read_length(inp, c.rd, c.val))

\* the distance decoder made, the token is read from the bytes
CopyReadBack(u, d) ==
    IF d.kind # "ok" THEN [u EXCEPT !.pc = "done", !.res = [kind |-> d.kind, fault |-> d.fault]]
    ELSE [u EXCEPT !.pc = "done",
                   !.res = CopyReadSymbol(u.bytes, d.dec,
                                          read_code(u.bytes, NewReader, FIXED_LITERAL_DEC))]

ReadCopy ==
    /\ unit.test = "copy"
    /\ unit.pc = "bytes"
    /\ unit' = CopyReadBack(unit, gen_huffman_dec(DistLengths, NUM_DIST_CODE))
    /\ UNCHANGED <<overflow_checks, uncompressed, deflating, compressed, full, inflating>>

UnitInit ==
    /\ overflow_checks \in BOOLEAN
    /\ uncompressed = <<>>
    /\ deflating = DeflateIdle
    /\ compressed = <<>>
    /\ full = <<>>
    /\ inflating = InflateIdle
    /\ \/ \E lengths \in CodeLengthArrays : unit = CodeTest(lengths)
       \/ unit = FixedTest
       \/ \E fields \in FieldSeqs : unit = BasicsTest(fields)
       \/ \E freq \in Histograms : unit = AssignTest("any", freq)
       \/ \E text \in HistogramTexts :
             \E h \in TextHistograms(deflate_chunk(DeflateBegin, text)) :
                unit = AssignTest(h[1], h[2])
       \/ \E v \in LengthVectors : unit = CodelenTest(v)
       \/ \E len \in MatchLengths : unit = TableTest("length_code", len)
       \/ \E dist \in Distances : unit = TableTest("dist_code", dist)
       \/ \E lit \in (END_OF_BLOCK + 1)..285, extra \in 0..63 :
             unit = TableTest("read_length", <<lit, extra>>)
       \/ \E len \in CopyLengths, dist \in CopyDistances : unit = CopyTest(len, dist)

UnitNext ==
    \/ GenHuffman
    \/ ReadSymbolCode
    \/ ReadOneBit
    \/ BasicsWrite
    \/ BasicsFlush
    \/ BasicsRead
    \/ AssignLengths
    \/ EncodeLengths
    \/ ExpandLengths
    \/ WriteLengths
    \/ ReadLengths
    \/ LengthCode
    \/ DistCode
    \/ ReadLength
    \/ EmitCopy
    \/ ReadCopy

UnitSpec == UnitInit /\ [][UnitNext]_vars

\* ------------------------------------------------------------ properties
\* inflate has returned, from the whole stream or from a prefix of it
Returned == inflating.pc = "done"

\* C1: round trip.  For every non-empty text, deflate succeeds, and inflate
\* run on all that deflate wrote succeeds, writes exactly the text and returns
\* its length and the CRC-32 of it.
RoundTrip ==
    /\ (deflating.pc = "done" /\ uncompressed # <<>>) => deflating.result.kind = "ok"
    /\ (deflating.pc = "done" /\ uncompressed # <<>> /\ Returned /\ compressed = full)
       => /\ inflating.result.kind = "ok"
          /\ inflating.output = uncompressed
          /\ inflating.result.size = Len(uncompressed)
          /\ inflating.result.crc = sum32(DigestWrite(NewDigest, uncompressed))

\* C2: inflate never panics.  Whatever the input, inflate ends by returning
\* Ok or Err, never by a failed assertion, an index out of range or an
\* integer underflow.
InflateNeverPanics == inflating.result.kind # "panic"

\* C3: blocks are decoded until one with BFINAL = 1 has been decoded.
\* inflate does not return Ok after a block whose BFINAL bit is 0.
ReturnsAfterFinalBlockOnly ==
    (Returned /\ inflating.result.kind = "ok") => inflating.last_block_bit = 1

\* a stream that is one final stored block: BFINAL = 1, BTYPE = 0, the rest
\* of the first byte dropped, LEN and NLEN = ~LEN little-endian, LEN bytes
StoredLen(inp) == inp[2] + 256 * inp[3]
IsStoredStream(inp) ==
    /\ Len(inp) >= 5
    /\ inp[1] % 8 = 1
    /\ inp[4] + 256 * inp[5] = 65535 - StoredLen(inp)
    /\ Len(inp) = 5 + StoredLen(inp)

\* C4: stored block.  For a block with BTYPE = 0 inflate drops the rest of
\* the current byte, reads LEN and NLEN, and outputs exactly the next LEN
\* bytes of the input unchanged, after which the block is finished.
StoredBlockIsCopied ==
    (Returned /\ compressed = full /\ IsStoredStream(compressed))
    => /\ inflating.result.kind = "ok"
       /\ inflating.output = SubSeq(compressed, 6, Len(compressed))
       /\ inflating.result.size = StoredLen(compressed)

\* C5: inflate on an input of zero bytes is a no-op: it succeeds, writes no
\* bytes and reports size 0.
EmptyInputIsNoOp ==
    (Returned /\ compressed = <<>>)
    => /\ inflating.result.kind = "ok"
       /\ inflating.output = <<>>
       /\ inflating.result.size = 0

\* C6: block policy of deflate.  On the empty text deflate writes nothing and
\* returns (0, 0); on a non-empty text, in however many chunks read() gives
\* it, the block header is written once only and the output is one block
\* whose first three bits are BFINAL = 1 and BTYPE = 2.
OneDynamicBlock ==
    /\ deflating.headers <= 1
    /\ (deflating.pc = "done" /\ uncompressed = <<>>)
       => /\ deflating.result = [kind |-> "ok", fault |-> "", size |-> 0,
                                 crc |-> sum32(NewDigest)]
          /\ deflating.output = <<>>
    /\ (deflating.pc = "done" /\ uncompressed # <<>>)
       => /\ deflating.result.kind = "ok"
          /\ deflating.headers = 1
          /\ deflating.output # <<>>
          /\ deflating.output[1] % 8 = 1 + 2 * 2

\* C7: truncation is an error.  When inflate decodes the whole stream
\* successfully, inflate on a prefix that lacks any of the bytes that run
\* consumed returns Err(UnexpectedEof): never Ok, never a panic.
TruncationIsErr ==
    (Returned /\ Len(compressed) < Len(full))
    => \/ /\ inflating.result.kind = "err"
          /\ inflating.result.fault = "UnexpectedEof"
       \/ inflate(full).result.kind # "ok"
       \/ Len(compressed) >= inflate(full).reader.pos

\* C7 witness: a stream that decodes cut short after its first byte, at least
\* one byte decoded before the source ran out
TruncatedMidStream ==
    /\ Returned
    /\ Len(compressed) >= 1
    /\ inflating.decoded # <<>>
    /\ inflate(full).result.kind = "ok"
    /\ Len(compressed) < inflate(full).reader.pos
    /\ inflating.result.fault = "UnexpectedEof"

\* C8: a bad distance is an error value.  When a decoded copy has a distance
\* greater than the number of bytes produced so far, inflate returns Err and
\* copies nothing; it does not abort.
BadDistanceIsErr ==
    (Returned /\ inflating.tok.kind = "copy" /\ inflating.tok.dist > Len(inflating.decoded))
    => inflating.result.kind = "err"

OutputAccounting ==
    /\ inflating.pc = "loop"
       => /\ inflating.output \o inflating.window = inflating.decoded
          /\ inflating.hasher = DigestWrite(NewDigest, inflating.output)
          /\ inflating.decompressed_size = Len(inflating.decoded)
    /\ (Returned /\ inflating.result.kind = "ok")
       => /\ inflating.output = inflating.decoded
          /\ inflating.result.size = Len(inflating.decoded)
          /\ inflating.result.crc = sum32(DigestWrite(NewDigest, inflating.output))

\* C10 witness: inflate returned Ok with more bytes than the window can hold,
\* so that both arms flushed the front of the window on the way
WindowFlushedOnTheWay ==
    /\ Returned
    /\ inflating.result.kind = "ok"
    /\ Len(inflating.output) > MAX_DIST + MAX_LEN

\* C11: every distance from 1 through MAX_DIST is copied.  A copy whose
\* distance is between 1 and 32768 and not beyond the bytes produced so far
\* is carried out: inflate does not stop at the distance check for it.
MaxDistanceIsCopied ==
    (Returned /\ inflating.tok.kind = "copy"
     /\ inflating.tok.dist >= 1 /\ inflating.tok.dist <= MAX_DIST
     /\ inflating.tok.dist <= Len(inflating.decoded))
    => ~(/\ inflating.result.kind = "panic"
         /\ inflating.result.fault = "assert dist > 0 && dist < MAX_DIST")

\* the bytes inflate has produced: those written out and those in the window
Produced(s) == s.output \o s.window

\* C12: copy semantics, overlapping included.  A turn of the loop that copies
\* len bytes at distance dist appends to the bytes produced len bytes, the
\* k-th of which (k = 0 .. len - 1) is the byte dist - (k mod dist) places
\* before the end of what was produced before the copy, whether or not
\* len > dist and whether or not the front of the window is flushed first.
CopyAppendsFromBehind ==
    [][InflateCopy =>
          LET before == Produced(inflating)
              len == inflating'.tok.len
              dist == inflating'.tok.dist
          IN Produced(inflating') =
                before \o [k \in 1..len |->
                              before[Len(before) - dist + ((k - 1) % dist) + 1]]]_vars

\* C12 witness: a copy longer than its distance whose bytes did not fit the
\* window, the front of which was written out first
OverlappingCopyFlushed ==
    /\ inflating.pc = "loop"
    /\ inflating.tok.kind = "copy"
    /\ inflating.tok.len > inflating.tok.dist
    /\ Len(inflating.output) >= MAX_LEN

\* C13: single-symbol alphabet.  From the length array [1], gen_huffman_enc
\* gives symbol 0 the code 0 of length 1, gen_huffman_dec builds a decoder
\* that is not empty, and read_code with it returns symbol 0 whether the bit
\* it reads is 0 or 1.
SingleSymbolDecodes ==
    (unit.test = "code" /\ unit.lengths = <<1>> /\ unit.pc # "lengths")
    => /\ unit.pc # "done"
       /\ unit.enc = << <<0, 1>> >>
       /\ unit.dec.symbol # <<>>
       /\ unit.pc = "bit" => (unit.code.kind = "ok" /\ unit.code.val = 0)

\* the canonical code of RFC 1951, 3.2.2, as a number read from its first
\* bit: codes of one length are consecutive in symbol order, and the first
\* code of a length is twice the code after the last one of the length below
RECURSIVE FirstCode(_, _)
FirstCode(v, l) ==
    IF l <= 1 THEN 0
    ELSE 2 * (FirstCode(v, l - 1) + Cardinality({i \in 1..Len(v) : v[i] = l - 1}))
CanonicalCode(v, s) ==
    FirstCode(v, v[s + 1]) + Cardinality({i \in 1..s : v[i] = v[s + 1]})

\* C14: canonical code property.  For a code-length array with entries in
\* 0..15 that satisfies Kraft's inequality, gen_huffman_enc gives every symbol
\* of nonzero length l the canonical code of l bits, stored with its first
\* bit lowest; no code is the beginning of the code of another symbol; and
\* read_code, with the decoder gen_huffman_dec builds from the same lengths,
\* fed the bits of the code of s, returns s having consumed l bits.
CanonicalCodeDecodes ==
    /\ (unit.test = "code" /\ unit.pc = "tables")
       => \A s \in 0..(Len(unit.lengths) - 1) :
             LET l == unit.lengths[s + 1]
                 c == unit.enc[s + 1]
             IN l # 0
                => /\ c[2] = l
                   /\ c[1] < Pow2(l)
                   /\ \A k \in 1..l :
                         LsbBits(c[1], l)[k]
                            = (CanonicalCode(unit.lengths, s) \div Pow2(l - k)) % 2
                   /\ \A t \in 0..(Len(unit.lengths) - 1) :
                         (t # s /\ unit.lengths[t + 1] >= l)
                         => unit.enc[t + 1][1] % Pow2(l) # c[1]
    /\ (unit.test = "code" /\ unit.pc = "symbol")
       => /\ unit.code.kind = "ok"
          /\ unit.code.val = unit.sym
          /\ unit.code.rd.nread = unit.lengths[unit.sym + 1]

\* C14 witness: symbol 17 of test::dynamic_huffman_codelen, whose code is 13
\* in 4 bits, read back from its code
CodelenSymbolReadBack ==
    /\ unit.test = "code"
    /\ unit.pc = "symbol"
    /\ unit.lengths = CodelenLengths
    /\ unit.sym = 17
    /\ unit.enc[18] = <<11, 4>>
    /\ unit.code.val = 17

\* C19: fixed literal/length table.  The decoder gen_huffman_dec builds from
\* the lengths 8 for 0..143, 9 for 144..255, 7 for 256..279 and 8 for 280..287
\* has the count and symbol arrays of the hand-written FIXED_LITERAL_DEC, and
\* for every symbol s in 0..287 read_code with FIXED_LITERAL_DEC, fed the code
\* FIXED_LITERAL_ENC[s], returns s.
FixedTableIsGenerated ==
    /\ (unit.test = "code" /\ unit.pc = "tables" /\ unit.lengths = FixedLengths)
       => /\ unit.dec.count = FIXED_LITERAL_DEC.count
          /\ unit.dec.symbol = FIXED_LITERAL_DEC.symbol
    /\ (unit.test = "fixed" /\ unit.pc = "symbol")
       => /\ unit.code.kind = "ok"
          /\ unit.code.val = unit.sym
          /\ unit.code.rd.nread = FixedLengths[unit.sym + 1]

\* C19 witness: the 9-bit code of symbol 255, the last of its length, read
\* back with the hand-written decoder
FixedSymbolReadBack ==
    /\ unit.test = "fixed"
    /\ unit.pc = "symbol"
    /\ unit.sym = 255
    /\ unit.code.val = 255
    /\ unit.code.rd.nread = 9

\* C20: bit-stream round trip.  Fields (value, n, order) with 0 <= n <= 16
\* and value < 2^n, written in turn by write_bits and flushed, are all
\* written, and read_bits with the same (n, order) in turn returns the same
\* values in the same order, for both orders and across byte boundaries.
BitsRoundTrip ==
    unit.test = "basics"
    => /\ unit.fault = ""
       /\ \A k \in 1..Len(unit.values) : unit.values[k] = unit.fields[k][1]

\* the same for the widths 0 .. 15 only
BitsRoundTripBelow16 ==
    (unit.test = "basics" /\ \A k \in 1..Len(unit.fields) : unit.fields[k][2] < 16)
    => /\ unit.fault = ""
       /\ \A k \in 1..Len(unit.values) : unit.values[k] = unit.fields[k][1]

\* the sum of v[lo..hi], by halves
RECURSIVE SumTree(_, _, _)
SumTree(v, lo, hi) ==
    IF lo > hi THEN 0
    ELSE IF lo = hi THEN v[lo]
    ELSE SumTree(v, lo, (lo + hi) \div 2) + SumTree(v, (lo + hi) \div 2 + 1, hi)

\* Kraft's sum of the nonzero lengths of v, times 2^top, top >= every length
KraftOf(v, top) ==
    SumTree([i \in 1..Len(v) |-> IF v[i] = 0 THEN 0 ELSE Pow2(top - v[i])], 1, Len(v))

\* the sum of frequency x length
Cost(freq, lengths) == SumTree([i \in 1..Len(freq) |-> freq[i] * lengths[i]], 1, Len(freq))

\* the cost of a Huffman tree of the weights ws, sorted upwards: the two
\* least weights leave, their sum enters at its place and is paid once
RECURSIVE MergeCost(_)
MergeCost(ws) ==
    IF Len(ws) <= 1 THEN 0
    ELSE LET s == ws[1] + ws[2]
             rest == SubSeq(ws, 3, Len(ws))
             k == Cardinality({i \in 1..Len(rest) : rest[i] <= s})
         IN s + MergeCost(SubSeq(rest, 1, k) \o <<s>> \o SubSeq(rest, k + 1, Len(rest)))

\* the symbols of a histogram that occur
Occurring(freq) == {i \in 1..Len(freq) : freq[i] > 0}

\* every code over the symbols S with Kraft's sum at most 1, as lengths
PrefixCodes(S) ==
    {g \in [S -> 1..(Cardinality(S) - 1)] :
        SumTree([i \in 1..Cardinality(S) |->
                    Pow2(MAX_NUM_BITS - g[CHOOSE x \in S :
                                             Cardinality({y \in S : y < x}) = i - 1])],
                1, Cardinality(S)) <= Pow2(MAX_NUM_BITS)}

\* the cost of the code g over the symbols S
CostOver(freq, S, g) ==
    SumTree([i \in 1..Len(freq) |-> IF i \in S THEN freq[i] * g[i] ELSE 0], 1, Len(freq))

\* most occurring symbols for which every prefix code is compared
MaxCompared == 6

\* C16: assign_lengths returns one length per symbol, 0 exactly for the
\* symbols of frequency 0; a single occurring symbol gets length 1; with two
\* or more occurring symbols Kraft's sum of the lengths is exactly 1 and the
\* sum of frequency x length is the cost of a Huffman tree, which no prefix
\* code over the occurring symbols undercuts; the frequencies 45, 13, 12,
\* 16, 9, 5 give the lengths 1, 3, 3, 3, 4, 4.
AssignLengthsIsHuffman ==
    (unit.test = "assign" /\ unit.pc = "done") =>
        /\ unit.kind = "ok"
        /\ Len(unit.lengths) = Len(unit.freq)
        /\ \A i \in 1..Len(unit.freq) : (unit.freq[i] = 0) <=> (unit.lengths[i] = 0)
        /\ Cardinality(Occurring(unit.freq)) = 1 =>
              \A i \in Occurring(unit.freq) : unit.lengths[i] = 1
        /\ Cardinality(Occurring(unit.freq)) >= 2 =>
              /\ KraftOf(unit.lengths, 2 * MAX_NUM_BITS) = Pow2(2 * MAX_NUM_BITS)
              /\ Cost(unit.freq, unit.lengths)
                    = MergeCost(SortSeq(SelectSeq(unit.freq, LAMBDA f : f > 0),
                                        LAMBDA a, b : a < b))
        /\ Cardinality(Occurring(unit.freq)) \in 2..MaxCompared =>
              \A g \in PrefixCodes(Occurring(unit.freq)) :
                 Cost(unit.freq, unit.lengths) <= CostOver(unit.freq, Occurring(unit.freq), g)
        /\ unit.freq = CormenFreq => unit.lengths = <<1, 3, 3, 3, 4, 4>>

\* the example of Cormen has been assigned its lengths
CormenLengthsAssigned ==
    /\ unit.test = "assign"
    /\ unit.pc = "done"
    /\ unit.freq = CormenFreq
    /\ unit.lengths = <<1, 3, 3, 3, 4, 4>>

\* C15: for the histograms deflate accumulates from a text, no length
\* assign_lengths returns is above 15 in the literal/length and distance
\* alphabets, and none is above 7 in the code-length alphabet, whose lengths
\* are written in 3-bit fields.
LengthsWithinCap ==
    (unit.test = "assign" /\ unit.pc = "done" /\ unit.kind = "ok") =>
        /\ unit.alphabet \in {"literal", "distance"} =>
              \A i \in 1..Len(unit.lengths) : unit.lengths[i] <= MAX_NUM_BITS
        /\ unit.alphabet = "codelen" =>
              \A i \in 1..Len(unit.lengths) : unit.lengths[i] <= 7

\* C17: encode_code_lengths does not fail, and expanding what it returns
\* (Single(c) is c; 16 repeats the value before it r + 3 times; 17 is r + 3
\* zeros; 18 is r + 11 zeros) gives the array it was given.
ExpansionReproduces ==
    (unit.test = "codelen") =>
        /\ unit.pc = "done" => unit.fault \notin {"Illegal repeat", "d.pop().unwrap()"}
        /\ unit.pc = "expanded" => unit.d = unit.v

\* a run of 139 zeros between two fives has been encoded and expanded
LongRunExpanded ==
    /\ unit.test = "codelen"
    /\ unit.pc = "expanded"
    /\ unit.v = <<5>> \o [k \in 1..139 |-> 0] \o <<5>>
    /\ unit.eclens = <<Single(5), Repeat(18, 127), Single(0), Single(5)>>
    /\ unit.d = unit.v

\* C18: the code lengths written by the steps of the encoder (HCLEN, the
\* lengths of the code-length code in 3-bit fields in HCLEN_ORDER, the
\* meta-symbols with their extra bits) and read back by the steps of the
\* decoder with n = len(v) are v; neither side fails.
LengthsSurviveTheBits ==
    (unit.test = "codelen") =>
        /\ unit.pc = "done" => unit.fault \in {"Illegal repeat", "d.pop().unwrap()"}
        /\ unit.pc = "read" => unit.hlit_len = unit.v

\* the length symbols 257..285 of DEFLATE: the least length of each and the
\* number of its extra bits (RFC 1951, 3.2.5)
LengthBase ==
    <<3, 4, 5, 6, 7, 8, 9, 10, 11, 13, 15, 17, 19, 23, 27, 31, 35, 43, 51, 59,
      67, 83, 99, 115, 131, 163, 195, 227, 258>>
LengthExtra ==
    <<0, 0, 0, 0, 0, 0, 0, 0, 1, 1, 1, 1, 2, 2, 2, 2, 3, 3, 3, 3,
      4, 4, 4, 4, 5, 5, 5, 5, 0>>
\* the symbol of a length: the last one whose least length is not above it
LengthSymbol(len) ==
    256 + CHOOSE k \in 1..Len(LengthBase) :
              /\ LengthBase[k] <= len
              /\ \A j \in (k + 1)..Len(LengthBase) : LengthBase[j] > len

\* C21: for every match length in 3..258 length_code returns the length
\* symbol of DEFLATE and the number of its extra bits (3..10 are 257..264
\* with 0 bits, 11..18 are 265..268 with 1, .., 258 is 285 with 0).
LengthCodeIsTheTable ==
    (unit.test = "table" /\ unit.fn = "length_code" /\ unit.pc = "done") =>
        /\ unit.res.kind = "ok"
        /\ unit.res.code = LengthSymbol(unit.arg)
        /\ unit.res.bits = LengthExtra[LengthSymbol(unit.arg) - 256]

\* floor(log2(x)) for 1 <= x < 2^16
Log2Floor(x) == CHOOSE k \in 0..15 : Pow2(k) <= x /\ x < Pow2(k + 1)

\* what read_distance returns for the symbol c when every extra bit is bit
DistanceRead(c, bit) == read_distance(<<255 * bit, 255 * bit>>, NewReader, c)

\* C22: for every distance d in 1..32768 dist_code returns a symbol c and a
\* count e of extra bits without failing: c = d - 1 and e = 0 for d in 1..4,
\* c in 4..29 and e = floor(log2(d - 1)) - 1 for d above 4; read_distance
\* reads e extra bits for c, and d is among the distances it returns for c.
DistCodeMirrorsDecoder ==
    (unit.test = "table" /\ unit.fn = "dist_code" /\ unit.pc = "done") =>
        /\ unit.res.kind = "ok"
        /\ unit.arg <= 4 => unit.res.code = unit.arg - 1 /\ unit.res.bits = 0
        /\ unit.arg > 4 => /\ unit.res.code \in 4..29
                           /\ unit.res.bits = Log2Floor(unit.arg - 1) - 1
        /\ unit.res.bits = DistanceRead(unit.res.code, 0).rd.nread
        /\ DistanceRead(unit.res.code, 0).val <= unit.arg
        /\ unit.arg <= DistanceRead(unit.res.code, 1).val

\* C24: for every length symbol 257..285 and every value of its extra bits
\* read_length reads the extra bits of the symbol and returns its least
\* length plus their value, a length in 3..258; 257..264 and 285 read none.
ReadLengthIsTheTable ==
    (unit.test = "table" /\ unit.fn = "read_length" /\ unit.pc = "done") =>
        /\ unit.res.kind = "ok"
        /\ unit.res.rd.nread = LengthExtra[unit.arg[1] - 256]
        /\ unit.res.val = LengthBase[unit.arg[1] - 256]
                          + (unit.arg[2] % Pow2(LengthExtra[unit.arg[1] - 256]))
        /\ unit.res.val \in MIN_LEN..MAX_LEN

\* the window of inflate is the end of what was produced, and no shorter
\* than the longest distance allows
WindowKeepsHistory ==
    (inflating.pc \in {"loop", "done"}) =>
        /\ Len(inflating.window) <= Len(inflating.decoded)
        /\ inflating.window
              = SubSeq(inflating.decoded,
                       Len(inflating.decoded) - Len(inflating.window) + 1,
                       Len(inflating.decoded))
        /\ \/ Len(inflating.window) >= Min(Len(inflating.decoded), MAX_DIST)
           \/ inflating.result.kind \notin {"none", "ok"}

\* C27: after any literals and copies the window of inflate holds at most
\* MAX_DIST + MAX_LEN = 33026 bytes, the bytes before them having been
\* written out, and it holds the last min(bytes produced, MAX_DIST) bytes.
WindowBounded ==
    /\ WindowKeepsHistory
    /\ Len(inflating.window) <= MAX_DIST + MAX_LEN

\* the distance symbols 0..29 of DEFLATE: the least distance of each
DistBase ==
    <<1, 2, 3, 4, 5, 7, 9, 13, 17, 25, 33, 49, 65, 97, 129, 193, 257, 385, 513, 769,
      1025, 1537, 2049, 3073, 4097, 6145, 8193, 12289, 16385, 24577>>
\* the symbol of a distance: the last one whose least distance is not above it
DistSymbol(dist) ==
    CHOOSE k \in 0..(Len(DistBase) - 1) :
        /\ DistBase[k + 1] <= dist
        /\ \A j \in (k + 1)..(Len(DistBase) - 1) : DistBase[j + 1] > dist

\* C23: for a Copy token with 3 <= len <= 258 and 1 <= dist <= 32768 the
\* four fields of dehuffman are written without failure, the extra bits of
\* the length hold len minus the least length of its symbol and those of the
\* distance hold dist minus the least distance of its symbol, in the widths
\* the decoder reads; read_length and read_distance give len and dist back.
CopyFieldsRoundTrip ==
    (unit.test = "copy" /\ unit.pc \in {"bytes", "done"}) =>
        /\ Len(unit.fields) = 4
        /\ unit.fields[2][1] = unit.len - LengthBase[LengthSymbol(unit.len) - 256]
        /\ unit.fields[2][2] = LengthExtra[LengthSymbol(unit.len) - 256]
        /\ unit.fields[4][1] = unit.dist - DistBase[DistSymbol(unit.dist) + 1]
        /\ unit.fields[4][2] = DistanceRead(DistSymbol(unit.dist), 0).rd.nread
        /\ unit.pc = "done" => /\ unit.res.kind = "ok"
                               /\ unit.res.len = unit.len
                               /\ unit.res.dist = unit.dist

\* the bytes the first k tokens of vlz stand for: a Literal its byte,
\* END_OF_BLOCK nothing, a Copy len bytes taken dist back in the bytes so
\* far; ok is FALSE once a Copy reaches back before the first byte
RECURSIVE ExpandTokens(_, _)
ExpandTokens(vlz, k) ==
    IF k = 0 THEN [ok |-> TRUE, bytes |-> <<>>]
    ELSE LET e == ExpandTokens(vlz, k - 1)
             t == vlz[k]
             n == Len(e.bytes)
         IN IF ~e.ok THEN e
            ELSE IF t.lit
            THEN IF t.val = END_OF_BLOCK THEN e
                 ELSE [e EXCEPT !.bytes = Append(@, t.val)]
            ELSE IF t.dist < 1 \/ t.dist > n THEN [e EXCEPT !.ok = FALSE]
            ELSE [e EXCEPT !.bytes = @ \o [j \in 1..t.len |->
                                               e.bytes[n - t.dist + ((j - 1) % t.dist) + 1]]]

\* deflate has read bytes and has not failed
DeflateRunning ==
    /\ deflating.pc \in {"read", "done"}
    /\ deflating.result.kind \in {"none", "ok"}

\* C25: the tokens deflate has built stand for exactly the bytes it has
\* read, in order: each byte of the input is covered by one token, a Copy
\* covering len of them.
TokensCoverInput ==
    DeflateRunning =>
        /\ ExpandTokens(deflating.vlz, Len(deflating.vlz)).ok
        /\ ExpandTokens(deflating.vlz, Len(deflating.vlz)).bytes
              = SubSeq(uncompressed, 1, deflating.pos)

\* C26: compare never reads outside the buffer, and every Copy token has
\* 3 <= len <= 258 and 1 <= dist <= 32768, reaches back no further than the
\* bytes before its position and covers only bytes that were read.  (The
\* k-th token is the one emitted at position k - 1 of the input.)
CopyTokensBounded ==
    /\ deflating.result.fault # "compare: index out of bounds"
    /\ \A k \in 1..Len(deflating.vlz) :
          ~deflating.vlz[k].lit =>
              /\ deflating.vlz[k].len \in MIN_LEN..MAX_LEN
              /\ deflating.vlz[k].dist \in 1..MAX_DIST
              /\ deflating.vlz[k].dist <= k - 1
              /\ k - 1 + deflating.vlz[k].len <= deflating.pos

\* bit j (from 0) of the bytes, the low bit of a byte first
BitAt(bytes, j) == (bytes[j \div 8 + 1] \div Pow2(j % 8)) % 2

\* the bytes end with the n bits of code and fewer than 8 zero bits
EndsWithCode(bytes, code, n) ==
    \E pad \in 0..7 :
        /\ 8 * Len(bytes) - pad - n >= 0
        /\ \A j \in 0..(n - 1) :
              BitAt(bytes, 8 * Len(bytes) - pad - n + j) = (code \div Pow2(j)) % 2
        /\ \A j \in (8 * Len(bytes) - pad)..(8 * Len(bytes) - 1) : BitAt(bytes, j) = 0

Covered(cl) ==
    IF cl.single THEN 1
    ELSE IF cl.code = 18 THEN cl.repeat + 11
    ELSE cl.repeat + 3

\* the number of code lengths the first k entries of eclens stand for
RECURSIVE CoveredUpTo(_, _)
CoveredUpTo(eclens, k) ==
    IF k = 0 THEN 0 ELSE CoveredUpTo(eclens, k - 1) + Covered(eclens[k])

\* entry k of eclens stands for entries of v that all hold c
StandsFor(v, eclens, k, c) ==
    /\ CoveredUpTo(eclens, k) <= Len(v)
    /\ \A j \in (CoveredUpTo(eclens, k - 1) + 1)..CoveredUpTo(eclens, k) : v[j] = c

\* entry k of what encode_code_lengths returned for v is well formed
WellFormedAt(v, eclens, k) ==
    IF eclens[k].single
    THEN /\ eclens[k].code \in 0..15
         /\ StandsFor(v, eclens, k, eclens[k].code)
    ELSE /\ eclens[k].code \in 16..18
         /\ eclens[k].code = 16 =>
               /\ eclens[k].repeat \in 0..3
               /\ k > 1
               /\ eclens[k - 1].single \/ eclens[k - 1].code = 16
               /\ v[CoveredUpTo(eclens, k - 1)] # 0
               /\ StandsFor(v, eclens, k - 1, v[CoveredUpTo(eclens, k - 1)])
               /\ StandsFor(v, eclens, k, v[CoveredUpTo(eclens, k - 1)])
         /\ eclens[k].code = 17 =>
               /\ eclens[k].repeat \in 0..7
               /\ StandsFor(v, eclens, k, 0)
         /\ eclens[k].code = 18 =>
               /\ eclens[k].repeat \in 0..127
               /\ StandsFor(v, eclens, k, 0)

\* C29: every entry of the sequence encode_code_lengths returns is a
\* Single of a value 0..15, a 16 with repeat 0..3 that is not first, follows
\* a Single (or a 16) of the same nonzero length and stands for that length,
\* a 17 with repeat 0..7 or an 18 with repeat 0..127 standing for zeros.
MetaSymbolsWellFormed ==
    (unit.test = "codelen" /\ unit.pc # "v" /\ unit.fault = "") =>
        \A k \in 1..Len(unit.eclens) : WellFormedAt(unit.v, unit.eclens, k)

\* the longest run a 16 stands for has been returned: eight 5s and a 0
LongestSixteenReturned ==
    /\ unit.test = "codelen"
    /\ unit.pc = "eclens"
    /\ unit.v = [k \in 1..8 |-> 5] \o <<0>>
    /\ unit.eclens = <<Single(5), Repeat(16, 3), Single(5), Single(0)>>

\* the bits of the first k fields
RECURSIVE BitsWritten(_, _)
BitsWritten(fields, k) ==
    IF k = 0 THEN 0 ELSE BitsWritten(fields, k - 1) + fields[k][2]

\* the writer of test::basics after its writes and after its flush: no
\* assertion of the writer failed, fewer than 8 bits are held and none above
\* them; before the flush the file has one byte for every 8 bits written,
\* after it one more if bits remained, its high bits zero
WriterAccounts(u) ==
    /\ u.fault \notin {"assert n <= 16", "assert b <= 1 << n", "assert bits < 8"}
    /\ u.writer.bits < 8
    /\ u.writer.acc < Pow2(u.writer.bits)
    /\ u.pc = "write" =>
          /\ Len(u.bytes) = BitsWritten(u.fields, u.written) \div 8
          /\ u.writer.bits = BitsWritten(u.fields, u.written) % 8
    /\ u.pc = "read" =>
          /\ u.writer = NewWriter
          /\ Len(u.bytes) = (BitsWritten(u.fields, Len(u.fields)) + 7) \div 8
          /\ BitsWritten(u.fields, Len(u.fields)) % 8 # 0 =>
                u.bytes[Len(u.bytes)] < Pow2(BitsWritten(u.fields, Len(u.fields)) % 8)

\* C30: after every write_bits of a field of 0..16 bits with a value below
\* 2^n the writer holds fewer than 8 bits and nothing above them and has
\* emitted one byte for every 8 bits written so far; flush emits one more
\* byte, zero above the bits that remained, exactly when bits remained, and
\* leaves the writer empty: ceil(bits / 8) bytes in all.
WriterAccounting ==
    unit.test = "basics" => WriterAccounts(unit)

\* the same for the widths 0 .. 15 only
WriterAccountingBelow16 ==
    (unit.test = "basics" /\ \A k \in 1..Len(unit.fields) : unit.fields[k][2] < 16)
    => WriterAccounts(unit)

====
